---- MODULE Spec2Model ----
(***************************************************************************)
(* Model of the OCFL index store (internal/ocflite), its sqlite-backed     *)
(* access database (access/sqlite) and the sync protocol of the access     *)
(* service.  The relational tables are sets of rows; every query and       *)
(* statement is an operator over those sets.                               *)
(***************************************************************************)
EXTENDS Integers, Sequences, FiniteSets, TLC

(***************************************************************************)
(* Bounds of the model.                                                    *)
(***************************************************************************)
MaxHead == 2      \* longest version list handed to SetObject
MaxRowId == 3     \* largest rowid of ocfl_object_files the model allocates
MaxClock == 3     \* the clock stops here

(***************************************************************************)
(* Program constants.                                                      *)
(***************************************************************************)
UnknownSize == -1     \* size sentinel of ocfl_object_files.size
RefreshInterval == 2  \* access.RefreshInterval, in ticks of the model's clock

(***************************************************************************)
(* Value universes.                                                        *)
(***************************************************************************)
RootName == "r1"
ObjID == "o1"
Keys == {<<RootName, ObjID>>}          \* (root name, object id)
LPaths == {"a", "d/b"}                 \* logical paths of version states
TreePaths == {"D/c", "a", "d/a", "d/b"} \* logical paths of the directory tree
PathOrder == <<"D/c", "a", "d/a", "d/b">>  \* the logical paths in ascending byte order
Dirs == {".", "", "d", "D", "a", "x"}  \* directory names given to ReadVersionDir
Names == TreePaths \cup {"d", "x"}     \* file names given to StatVersionFile
CPaths == {"c1", "c2"}                 \* content paths of the manifest
CPathOrder == <<"c1", "c2">>
Digests == {"d1", "d2"}

VARIABLES
    roots,     \* ocfl_roots: set of root names
    objs,      \* ocfl_objects: rows [k, storage_path, inventory_digest, indexed_at]
    cfiles,    \* ocfl_object_files: rows [id, k, path, digest, size]
    vers,      \* ocfl_object_versions: rows [k, vnum, state_digest]
    vfiles,    \* ocfl_object_version_files: rows [k, vnum, path, content_id, is_deleted]
    clock,     \* time.Now().Unix()
    lastObj,   \* history: k -> the Object of the most recent successful SetObject
    prevHead,  \* history: k -> the head the index had before that SetObject
    conn,      \* connection -> the DB.TouchObject call it runs: [pc, k, now]
    store,     \* the object in the backing store, NoObject when it has none
    call,      \* caller -> its SyncObject call: [pc, brief, side, res, floor]
    flight,    \* the single-flight entry of "obj:"+id: [leader, waiters]
    reads,     \* history: the times of the last two inventories NewObject read
    io,        \* history: a bit per kind of collaborator call, flipped by each call
    returned,  \* history: the largest indexed_at a completed call returned
    scan,      \* IndexRoot and the backing store it scans: [decl, pc, todo, logged, indexed, got]
    op,        \* the most recent call of the database layer: [name, k, args, res, n]
    tx         \* the DB.SetObject call in progress: [pc, obj, work, missing, sizes, failed, cancelled]

idxVars == <<roots, objs, cfiles, vers, vfiles>>
histVars == <<lastObj, prevHead>>
syncVars == <<store, call, flight, reads, io, returned>>
callVars == <<op, tx>>
vars == <<roots, objs, cfiles, vers, vfiles, clock, lastObj, prevHead, conn,
          store, call, flight, reads, io, returned, scan, op, tx>>

Conns == {"conn1", "conn2"}            \* connections of the pool
Callers == {"p1", "p2"}                \* concurrent callers of SyncObject
ScanIDs == <<"o1", "o2">>              \* object ids, in the order a root scan yields them
NoLeader == "none"

NoCall == [name |-> "", k |-> <<RootName, ObjID>>, args |-> <<>>, res |-> <<>>, n |-> 0]
NoTx == [pc |-> "idle", obj |-> <<>>, work |-> <<>>, before |-> <<>>, missing |-> <<>>,
         sizes |-> <<>>, failed |-> FALSE, cancelled |-> FALSE, res |-> ""]
NoObject == [versions |-> <<>>, manifest |-> <<>>, inventoryDigest |-> "", storagePath |-> ""]

Max(S) == CHOOSE x \in S : \A y \in S : y <= x

\* Op applied to the value of v (v is evaluated once).
With(v, Op(_)) == CHOOSE r \in {Op(x) : x \in {v}} : TRUE

(***************************************************************************)
(* digestmap.go                                                            *)
(***************************************************************************)
\* The set of PathMaps (path -> digest) over a set of paths.
PathMapsOver(P) == UNION {[S -> Digests] : S \in SUBSET P}

\* PathMap.DigestMap: group the paths by digest.
DigestMap(pm) ==
    [d \in {pm[p] : p \in DOMAIN pm} |-> {p \in DOMAIN pm : pm[p] = d}]

\* DigestMap.PathMap: collect the (path, digest) pairs DigestMap.Paths yields.
PathMap(dm) ==
    [p \in UNION {dm[d] : d \in DOMAIN dm} |-> CHOOSE d \in DOMAIN dm : p \in dm[d]]

\* slices.Sort of the keys of a PathMap over logical paths.
SortedPaths(pm) == SelectSeq(PathOrder, LAMBDA p : p \in DOMAIN pm)

\* PathMap.Hash: SHA-512 over the lines "path digest\n" in ascending path
\* order.  The hash is collision free in the model: it is its input.
PathMapHash(pm) ==
    LET ps == SortedPaths(pm) IN [i \in 1..Len(ps) |-> <<ps[i], " ", pm[ps[i]], "\n">>]

\* DigestMap.Hash
Hash(dm) == PathMapHash(PathMap(dm))

(***************************************************************************)
(* Queries of ocflite.go                                                   *)
(***************************************************************************)
DB == [objs |-> objs, cf |-> cfiles, vs |-> vers, vf |-> vfiles, ok |-> TRUE]

\* get_object_version.sql that compares vnum with the number above ?3.
GetVersionAbove(db, k, vn) == {v \in db.vs : v.k = k /\ v.vnum = vn + 1}

\* get_object_version.sql: the version rows of (k, vn)
GetVersion(db, k, vn) == {v \in db.vs : v.k = k /\ v.vnum = vn}

\* list_object_versions.sql
ListVersions(db, k) == {v \in db.vs : v.k = k}

\* get_object_files.sql: the content paths of the object
ListObjectFiles(db, k) == {f.path : f \in {g \in db.cf : g.k = k}}

\* The slash-separated elements of a path.
Segs ==
    [s \in TreePaths \cup Dirs \cup Names |->
        CASE s = "D/c" -> <<"D", "c">>
          [] s = "d/a" -> <<"d", "a">>
          [] s = "d/b" -> <<"d", "b">>
          [] OTHER -> <<s>>]

\* ASCII lower case of a path element.
Lower(e) == IF e = "D" THEN "d" ELSE e

\* path LIKE dir || '/%': SQLite's LIKE ignores the case of ASCII letters.
Like(path, dir) ==
    /\ Len(Segs[path]) > Len(Segs[dir])
    /\ \A i \in 1..Len(Segs[dir]) : Lower(Segs[path][i]) = Lower(Segs[dir][i])

\* strings.HasPrefix(path, dir + "/")
HasDirPrefix(path, dir) ==
    /\ Len(Segs[path]) > Len(Segs[dir])
    /\ \A i \in 1..Len(Segs[dir]) : Segs[path][i] = Segs[dir][i]

\* The path constraint of list_object_version_files.sql (argument 4).
DirMatch(path, dir) == dir = "" \/ dir = "." \/ Like(path, dir)

\* list_object_version_files.sql, CTE latest_file
latest_file(db, k, vn, dir) ==
    With({f \in db.vf : f.k = k /\ f.vnum <= vn /\ DirMatch(f.path, dir)},
         LAMBDA rows :
           [p \in {f.path : f \in rows} |-> Max({f.vnum : f \in {g \in rows : g.path = p}})])

\* list_object_version_files.sql: for every path the row of its most recent
\* modification at or below vn, joined to its content file by content_id.
ListVersionFilesRows(db, k, vn, dir) ==
    With(latest_file(db, k, vn, dir), LAMBDA lf :
      UNION {
         {[path |-> f.path, digest |-> c.digest, content_path |-> c.path,
           size |-> c.size, mod_vnum |-> f.vnum, is_deleted |-> f.is_deleted]
            : c \in {x \in db.cf : x.id = f.content_id}}
         : f \in {g \in db.vf : g.k = k /\ g.path \in DOMAIN lf /\ g.vnum = lf[g.path]}})

\* ListVersionFiles: the rows in ORDER BY path, is_deleted
ListVersionFiles(db, k, vn, dir) ==
    With(ListVersionFilesRows(db, k, vn, dir), LAMBDA rows :
      With(SelectSeq(PathOrder, LAMBDA p : \E r \in rows : r.path = p), LAMBDA ps :
        [i \in 1..Len(ps) |-> CHOOSE r \in rows : r.path = ps[i]]))

\* GetVersionState: the DigestMap of the rows that are not deleted
GetVersionState(db, k, vn) ==
    With(ListVersionFiles(db, k, vn, "."), LAMBDA fs :
      LET live == {i \in 1..Len(fs) : ~fs[i].is_deleted}
      IN [d \in {fs[i].digest : i \in live} |->
            {fs[i].path : i \in {j \in live : fs[j].digest = d}}])

\* ListVersionFiles, ResultFunc: the VersionFileInfo of a row
VersionFileInfo(r) ==
    [path |-> r.path, digest |-> r.digest, contentPath |-> r.content_path,
     modVnum |-> r.mod_vnum, size |-> IF r.size < 0 THEN 0 ELSE r.size,
     hasSize |-> ~(r.size < 0), isDeleted |-> r.is_deleted]

\* strings.TrimPrefix(file.Path, dir + "/"), as path elements
TrimDir(path, dir) ==
    IF dir # "." /\ HasDirPrefix(path, dir)
    THEN SubSeq(Segs[path], Len(Segs[dir]) + 1, Len(Segs[path]))
    ELSE Segs[path]

\* ReadVersionDir: the loop over the files, entries being the list so far
RECURSIVE readDirEntries(_, _, _, _)
readDirEntries(files, i, dir, entries) ==
    IF i > Len(files) THEN entries
    ELSE LET file == VersionFileInfo(files[i])
             relPath == TrimDir(file.path, dir)
             entryName == relPath[1]
             isDir == Len(relPath) > 1
             l == Len(entries)
         IN IF l > 0 /\ entries[l].name = entryName
            THEN readDirEntries(files, i + 1, dir,
                   [entries EXCEPT
                      ![l].modVnum = IF @ < file.modVnum THEN file.modVnum ELSE @,
                      ![l].hasSize = IF file.isDeleted THEN @ ELSE @ /\ file.hasSize,
                      ![l].size = IF file.isDeleted THEN @ ELSE @ + file.size])
            ELSE IF ~file.isDeleted
            THEN readDirEntries(files, i + 1, dir,
                   Append(entries,
                          [name |-> entryName, isDir |-> isDir,
                           digest |-> IF isDir THEN "" ELSE file.digest,
                           modVnum |-> file.modVnum, size |-> file.size,
                           hasSize |-> file.hasSize]))
            ELSE readDirEntries(files, i + 1, dir, entries)

\* ReadVersionDir: [notFound, entries]
ReadVersionDir(db, k, vn, dir) ==
    LET d == IF dir = "" THEN "." ELSE dir
        entries == readDirEntries(ListVersionFiles(db, k, vn, d), 1, d, <<>>)
    IN [notFound |-> Len(entries) < 1 /\ d # ".", entries |-> entries]

\* get_object_version_file.sql with ORDER BY mod_vnum ascending.
get_object_version_file_asc(db, k, vn, name) ==
    LET rows == UNION {
                  {[content_path |-> c.path, digest |-> c.digest, size |-> c.size,
                    is_deleted |-> f.is_deleted, mod_vnum |-> f.vnum]
                      : c \in {x \in db.cf : x.id = f.content_id}}
                  : f \in {g \in db.vf : g.k = k /\ g.vnum <= vn /\ g.path = name}}
    IN {r \in rows : \A q \in rows : q.mod_vnum >= r.mod_vnum}

\* get_object_version_file.sql: the row of the greatest version at or below
\* vn among the version-file rows of the path that join a content file
get_object_version_file(db, k, vn, name) ==
    LET rows == UNION {
                  {[content_path |-> c.path, digest |-> c.digest, size |-> c.size,
                    is_deleted |-> f.is_deleted, mod_vnum |-> f.vnum]
                      : c \in {x \in db.cf : x.id = f.content_id}}
                  : f \in {g \in db.vf : g.k = k /\ g.vnum <= vn /\ g.path = name}}
    IN {r \in rows : \A q \in rows : q.mod_vnum <= r.mod_vnum}

\* StatVersionFile: the VersionFileInfo of the name, none for ErrNotFound
StatVersionFile(db, k, vn, name) ==
    IF GetVersion(db, k, vn) = {} THEN {}
    ELSE {[path |-> name, digest |-> r.digest, contentPath |-> r.content_path,
           modVnum |-> r.mod_vnum, size |-> IF r.size < 0 THEN 0 ELSE r.size,
           hasSize |-> ~(r.size < 0)]
            : r \in {q \in get_object_version_file(db, k, vn, name) : ~q.is_deleted}}

\* GetVersionChanges without the branch for a changed digest.
GetVersionChangesNoModified(db, k, fromVN, toVN) ==
    IF fromVN < 0 \/ toVN < 1 THEN [err |-> TRUE, isNil |-> TRUE, fromVnum |-> 0, toVnum |-> 0, changes |-> <<>>]
    ELSE IF GetVersion(db, k, toVN) = {} THEN [err |-> TRUE, isNil |-> TRUE, fromVnum |-> 0, toVnum |-> 0, changes |-> <<>>]
    ELSE IF fromVN > 0 /\ GetVersion(db, k, fromVN) = {} THEN [err |-> TRUE, isNil |-> TRUE, fromVnum |-> 0, toVnum |-> 0, changes |-> <<>>]
    ELSE IF fromVN = toVN THEN [err |-> FALSE, isNil |-> FALSE, fromVnum |-> fromVN, toVnum |-> toVN,
                                 changes |-> <<>>]
    ELSE LET fromPaths == IF fromVN = 0 THEN <<>> ELSE PathMap(GetVersionState(db, k, fromVN))
             toPaths == PathMap(GetVersionState(db, k, toVN))
             added == {p \in DOMAIN toPaths : p \notin DOMAIN fromPaths}
             modified == {p \in DOMAIN toPaths :
                            p \in DOMAIN fromPaths /\ fromPaths[p] # toPaths[p]}
             deleted == {p \in DOMAIN fromPaths : p \notin DOMAIN toPaths}
             InChanges(p) == p \in added \cup deleted
             sorted == SelectSeq(PathOrder, InChanges)
         IN [err |-> FALSE, isNil |-> FALSE, fromVnum |-> fromVN, toVnum |-> toVN,
             changes |-> [i \in 1..Len(sorted) |->
                            [path |-> sorted[i],
                             modType |-> IF sorted[i] \in added THEN "added"
                                         ELSE IF sorted[i] \in modified THEN "modified"
                                         ELSE "deleted"]]]

\* GetVersionChanges without the loop over the paths of the from state.
GetVersionChangesNoDeleted(db, k, fromVN, toVN) ==
    IF fromVN < 0 \/ toVN < 1 THEN [err |-> TRUE, isNil |-> TRUE, fromVnum |-> 0, toVnum |-> 0, changes |-> <<>>]
    ELSE IF GetVersion(db, k, toVN) = {} THEN [err |-> TRUE, isNil |-> TRUE, fromVnum |-> 0, toVnum |-> 0, changes |-> <<>>]
    ELSE IF fromVN > 0 /\ GetVersion(db, k, fromVN) = {} THEN [err |-> TRUE, isNil |-> TRUE, fromVnum |-> 0, toVnum |-> 0, changes |-> <<>>]
    ELSE IF fromVN = toVN THEN [err |-> FALSE, isNil |-> FALSE, fromVnum |-> fromVN, toVnum |-> toVN,
                                 changes |-> <<>>]
    ELSE LET fromPaths == IF fromVN = 0 THEN <<>> ELSE PathMap(GetVersionState(db, k, fromVN))
             toPaths == PathMap(GetVersionState(db, k, toVN))
             added == {p \in DOMAIN toPaths : p \notin DOMAIN fromPaths}
             modified == {p \in DOMAIN toPaths :
                            p \in DOMAIN fromPaths /\ fromPaths[p] # toPaths[p]}
             deleted == {p \in DOMAIN fromPaths : p \notin DOMAIN toPaths}
             InChanges(p) == p \in added \cup modified
             sorted == SelectSeq(PathOrder, InChanges)
         IN [err |-> FALSE, isNil |-> FALSE, fromVnum |-> fromVN, toVnum |-> toVN,
             changes |-> [i \in 1..Len(sorted) |->
                            [path |-> sorted[i],
                             modType |-> IF sorted[i] \in added THEN "added"
                                         ELSE IF sorted[i] \in modified THEN "modified"
                                         ELSE "deleted"]]]

\* GetVersionChanges without the check that fromVN exists.
GetVersionChangesNoFromCheck(db, k, fromVN, toVN) ==
    IF fromVN < 0 \/ toVN < 1 THEN [err |-> TRUE, isNil |-> TRUE, fromVnum |-> 0, toVnum |-> 0, changes |-> <<>>]
    ELSE IF GetVersion(db, k, toVN) = {} THEN [err |-> TRUE, isNil |-> TRUE, fromVnum |-> 0, toVnum |-> 0, changes |-> <<>>]
    ELSE IF fromVN = toVN THEN [err |-> FALSE, isNil |-> FALSE, fromVnum |-> fromVN, toVnum |-> toVN,
                                 changes |-> <<>>]
    ELSE LET fromPaths == IF fromVN = 0 THEN <<>> ELSE PathMap(GetVersionState(db, k, fromVN))
             toPaths == PathMap(GetVersionState(db, k, toVN))
             added == {p \in DOMAIN toPaths : p \notin DOMAIN fromPaths}
             modified == {p \in DOMAIN toPaths :
                            p \in DOMAIN fromPaths /\ fromPaths[p] # toPaths[p]}
             deleted == {p \in DOMAIN fromPaths : p \notin DOMAIN toPaths}
             InChanges(p) == p \in added \cup modified \cup deleted
             sorted == SelectSeq(PathOrder, InChanges)
         IN [err |-> FALSE, isNil |-> FALSE, fromVnum |-> fromVN, toVnum |-> toVN,
             changes |-> [i \in 1..Len(sorted) |->
                            [path |-> sorted[i],
                             modType |-> IF sorted[i] \in added THEN "added"
                                         ELSE IF sorted[i] \in modified THEN "modified"
                                         ELSE "deleted"]]]

\* GetVersionChanges: [err, isNil, fromVnum, toVnum, changes], changes sorted by path
GetVersionChanges(db, k, fromVN, toVN) ==
    IF fromVN < 0 \/ toVN < 1 THEN [err |-> TRUE, isNil |-> TRUE, fromVnum |-> 0, toVnum |-> 0, changes |-> <<>>]
    ELSE IF GetVersion(db, k, toVN) = {} THEN [err |-> TRUE, isNil |-> TRUE, fromVnum |-> 0, toVnum |-> 0, changes |-> <<>>]
    ELSE IF fromVN > 0 /\ GetVersion(db, k, fromVN) = {} THEN [err |-> TRUE, isNil |-> TRUE, fromVnum |-> 0, toVnum |-> 0, changes |-> <<>>]
    ELSE IF fromVN = toVN THEN [err |-> FALSE, isNil |-> FALSE, fromVnum |-> fromVN, toVnum |-> toVN,
                                 changes |-> <<>>]
    ELSE LET fromPaths == IF fromVN = 0 THEN <<>> ELSE PathMap(GetVersionState(db, k, fromVN))
             toPaths == PathMap(GetVersionState(db, k, toVN))
             added == {p \in DOMAIN toPaths : p \notin DOMAIN fromPaths}
             modified == {p \in DOMAIN toPaths :
                            p \in DOMAIN fromPaths /\ fromPaths[p] # toPaths[p]}
             deleted == {p \in DOMAIN fromPaths : p \notin DOMAIN toPaths}
             InChanges(p) == p \in added \cup modified \cup deleted
             sorted == SelectSeq(PathOrder, InChanges)
         IN [err |-> FALSE, isNil |-> FALSE, fromVnum |-> fromVN, toVnum |-> toVN,
             changes |-> [i \in 1..Len(sorted) |->
                            [path |-> sorted[i],
                             modType |-> IF sorted[i] \in added THEN "added"
                                         ELSE IF sorted[i] \in modified THEN "modified"
                                         ELSE "deleted"]]]

\* get_object.sql, column head: COALESCE(MAX(vnum), 0)
Head_(db, k) ==
    IF ListVersions(db, k) = {} THEN 0 ELSE Max({v.vnum : v \in ListVersions(db, k)})

\* GetObjectBrief that does not read the indexed_at column.
GetObjectBriefNoTime(db, k) ==
    {[id |-> k[2], storagePath |-> o.storage_path, inventoryDigest |-> o.inventory_digest,
      indexedAt |-> 0, head |-> Head_(db, k)]
        : o \in {x \in db.objs : x.k = k}}

\* GetObjectBrief (get_object.sql): the briefs of (root, id), none if not found
GetObjectBrief(db, k) ==
    {[id |-> k[2], storagePath |-> o.storage_path, inventoryDigest |-> o.inventory_digest,
      indexedAt |-> o.indexed_at, head |-> Head_(db, k)]
        : o \in {x \in db.objs : x.k = k}}

(***************************************************************************)
(* Statements of ocflite.go                                                *)
(***************************************************************************)
\* upsert_object.sql that stores the epoch as indexed_at.
upsertObjectEpoch(db, k, obj, now) ==
    LET row == [k |-> k, storage_path |-> obj.storagePath,
                inventory_digest |-> obj.inventoryDigest, indexed_at |-> 0]
    IN [db EXCEPT !.objs = {o \in db.objs : o.k # k} \cup {row}]

\* upsert_object.sql whose ON CONFLICT clause leaves inventory_digest alone.
upsertObjectKeepDigest(db, k, obj, now) ==
    LET old == {o \in db.objs : o.k = k}
        row == [k |-> k, storage_path |-> obj.storagePath,
                inventory_digest |-> IF old = {} THEN obj.inventoryDigest
                                     ELSE (CHOOSE o \in old : TRUE).inventory_digest,
                indexed_at |-> now]
    IN [db EXCEPT !.objs = {o \in db.objs : o.k # k} \cup {row}]

\* upsert_object.sql
upsertObject(db, k, obj, now) ==
    LET row == [k |-> k, storage_path |-> obj.storagePath,
                inventory_digest |-> obj.inventoryDigest, indexed_at |-> now]
    IN [db EXCEPT !.objs = {o \in db.objs : o.k # k} \cup {row}]

\* rowid of a new ocfl_object_files row: one more than the largest in the table
NextRowId(cf) == IF cf = {} THEN 1 ELSE Max({f.id : f \in cf}) + 1

\* upsert_object_file.sql whose ON CONFLICT clause stores the size it is given.
upsertObjectFileOverwrite(cf, k, path, digest, size) ==
    IF \E f \in cf : f.k = k /\ f.path = path
    THEN {IF f.k = k /\ f.path = path
          THEN [f EXCEPT !.digest = digest, !.size = size]
          ELSE f : f \in cf}
    ELSE cf \cup {[id |-> NextRowId(cf), k |-> k, path |-> path, digest |-> digest, size |-> size]}

\* upsert_object_file.sql
upsertObjectFile(cf, k, path, digest, size) ==
    IF \E f \in cf : f.k = k /\ f.path = path
    THEN {IF f.k = k /\ f.path = path
          THEN [f EXCEPT !.digest = digest,
                         !.size = IF size < 0 THEN f.size ELSE size]
          ELSE f : f \in cf}
    ELSE cf \cup {[id |-> NextRowId(cf), k |-> k, path |-> path, digest |-> digest, size |-> size]}

\* delete_object_file.sql
deleteObjectFile(cf, k, path) == {f \in cf : ~(f.k = k /\ f.path = path)}

RECURSIVE upsertManifest(_, _, _, _)
upsertManifest(cf, k, manifest, order) ==
    IF order = <<>> THEN cf
    ELSE With(upsertObjectFile(cf, k, Head(order), manifest[Head(order)], UnknownSize),
              LAMBDA c : upsertManifest(c, k, manifest, Tail(order)))

\* setObjectFiles: upsert every manifest entry (in the order the map yields
\* them), then delete the content files that are no longer in the manifest.
setObjectFiles(db, k, manifest, order) ==
    With(upsertManifest(db.cf, k, manifest, order), LAMBDA added :
      [db EXCEPT !.cf = {f \in added : ~(f.k = k /\ f.path \notin DOMAIN manifest)}])

\* delete_object_version_files.sql
deleteObjectVersionFiles(db, k, vn) ==
    [db EXCEPT !.vf = {f \in db.vf : ~(f.k = k /\ f.vnum = vn)}]

\* deleteObjectVersion: the version's files, then delete_object_version.sql
deleteObjectVersion(db, k, vn) ==
    LET d == deleteObjectVersionFiles(db, k, vn)
    IN [d EXCEPT !.vs = {v \in d.vs : ~(v.k = k /\ v.vnum = vn)}]

\* insert_object_version_file.sql: content_id is the scalar subquery "a
\* content file of the object with this digest"; pick names the row sqlite
\* returns when several match.  No match is NULL, which the NOT NULL
\* constraint of content_id rejects.
insertVersionFile(db, k, vn, digest, name, isDeleted, pick) ==
    With({f \in db.cf : f.k = k /\ f.digest = digest}, LAMBDA cands :
      LET pref == {f \in cands : digest \in DOMAIN pick /\ f.path = pick[digest]}
          c == IF pref # {} THEN CHOOSE f \in pref : TRUE ELSE CHOOSE f \in cands : TRUE
      IN IF cands = {} THEN [db EXCEPT !.ok = FALSE]
         ELSE [db EXCEPT !.vf = @ \cup {[k |-> k, vnum |-> vn, path |-> name,
                                           content_id |-> c.id, is_deleted |-> isDeleted]}])

RECURSIVE insertAll(_, _, _, _, _, _, _)
insertAll(db, k, vn, pm, paths, isDeleted, pick) ==
    IF paths = <<>> THEN db
    ELSE With(insertVersionFile(db, k, vn, pm[Head(paths)], Head(paths), isDeleted, pick),
              LAMBDA d : insertAll(d, k, vn, pm, Tail(paths), isDeleted, pick))

\* setObjectVersionState: rewrite the file rows of version vn as the delta
\* against the state of vn-1 as the index has it.
setObjectVersionState(db, k, vn, state, pick) ==
    With(PathMap(state), LAMBDA statePM :
    With(deleteObjectVersionFiles(db, k, vn), LAMBDA d0 :
    With(IF vn > 1 THEN PathMap(GetVersionState(d0, k, vn - 1)) ELSE <<>>, LAMBDA prevPaths :
      LET changed == SelectSeq(PathOrder, LAMBDA p :
                        p \in DOMAIN statePM
                        /\ ~(p \in DOMAIN prevPaths /\ prevPaths[p] = statePM[p]))
          gone == SelectSeq(PathOrder, LAMBDA p :
                        p \in DOMAIN prevPaths /\ p \notin DOMAIN statePM)
      IN With(insertAll(d0, k, vn, statePM, changed, FALSE, pick), LAMBDA d1 :
              insertAll(d1, k, vn, prevPaths, gone, TRUE, pick)))))

\* upsert_object_version.sql
upsertObjectVersion(db, k, vn, stateDigest) ==
    [db EXCEPT !.vs = {v \in db.vs : ~(v.k = k /\ v.vnum = vn)}
                       \cup {[k |-> k, vnum |-> vn, state_digest |-> stateDigest]}]

\* The condition of setObjectVersion under which the file rows are rewritten.
stateChanged(db, k, vn, newStateDigest) ==
    ~\E v \in GetVersion(db, k, vn) : v.state_digest = newStateDigest

\* setObjectVersion that rewrites the file rows of every version.
setObjectVersionRewrite(db, k, vn, version, pick) ==
    With(Hash(version), LAMBDA newStateDigest :
      With(upsertObjectVersion(db, k, vn, newStateDigest), LAMBDA d1 :
        setObjectVersionState(d1, k, vn, version, pick)))

\* setObjectVersion
setObjectVersion(db, k, vn, version, pick) ==
    With(Hash(version), LAMBDA newStateDigest :
      With(upsertObjectVersion(db, k, vn, newStateDigest), LAMBDA d1 :
        IF stateChanged(db, k, vn, newStateDigest)
        THEN setObjectVersionState(d1, k, vn, version, pick)
        ELSE d1))

RECURSIVE setEachVersion(_, _, _, _, _)
setEachVersion(db, k, versions, i, pick) ==
    IF i > Len(versions) THEN db
    ELSE With(setObjectVersion(db, k, i, versions[i], pick),
              LAMBDA d : setEachVersion(d, k, versions, i + 1, pick))

\* The delete loop of setObjectVersions, started one version too high.
RECURSIVE deleteHigherLate(_, _, _, _)
deleteHigherLate(db, k, i, n) ==
    IF i + 1 > n THEN db
    ELSE With(deleteObjectVersion(db, k, i + 1), LAMBDA d : deleteHigherLate(d, k, i + 1, n))

\* setObjectVersions, second loop: delete the versions i..n
RECURSIVE deleteHigher(_, _, _, _)
deleteHigher(db, k, i, n) ==
    IF i > n THEN db
    ELSE With(deleteObjectVersion(db, k, i), LAMBDA d : deleteHigher(d, k, i + 1, n))

\* setObjectVersions
setObjectVersions(db, k, versions, pick) ==
    With(Cardinality(ListVersions(db, k)), LAMBDA existing :
      With(setEachVersion(db, k, versions, 1, pick), LAMBDA d :
        deleteHigher(d, k, Len(versions) + 1, existing)))

\* ocflite.SetObject inside the transaction of DB.setObject
ocfliteSetObject(db, k, obj, now, order, pick) ==
    With(upsertObject(db, k, obj, now), LAMBDA d1 :
      With(setObjectFiles(d1, k, obj.manifest, order), LAMBDA d2 :
        setObjectVersions(d2, k, obj.versions, pick)))

\* delete_object.sql without the delete of the version-file rows.
ocfliteUnsetObjectKeepFiles(db, k) ==
    [db EXCEPT !.cf = {f \in db.cf : f.k # k},
               !.vs = {v \in db.vs : v.k # k},
               !.objs = {o \in db.objs : o.k # k}]

\* delete_object.sql without the join on the root name: the object id alone
\* selects the rows.
ocfliteUnsetObjectAnyRoot(db, k) ==
    [db EXCEPT !.cf = {f \in db.cf : f.k[2] # k[2]},
               !.vf = {f \in db.vf : f.k[2] # k[2]},
               !.vs = {v \in db.vs : v.k[2] # k[2]},
               !.objs = {o \in db.objs : o.k[2] # k[2]}]

\* delete_object.sql
ocfliteUnsetObject(db, k) ==
    [db EXCEPT !.cf = {f \in db.cf : f.k # k},
               !.vf = {f \in db.vf : f.k # k},
               !.vs = {v \in db.vs : v.k # k},
               !.objs = {o \in db.objs : o.k # k}]

\* set_object_indexed_at.sql that stores the epoch instead of the time given.
ocfliteTouchObjectEpoch(db, k, now) ==
    [db EXCEPT !.objs = {IF o.k = k THEN [o EXCEPT !.indexed_at = 0] ELSE o : o \in db.objs}]

\* set_object_indexed_at.sql that also clears inventory_digest.
ocfliteTouchObjectDigest(db, k, now) ==
    [db EXCEPT !.objs = {IF o.k = k THEN [o EXCEPT !.indexed_at = now, !.inventory_digest = ""]
                         ELSE o : o \in db.objs}]

\* set_object_indexed_at.sql
ocfliteTouchObject(db, k, now) ==
    [db EXCEPT !.objs = {IF o.k = k THEN [o EXCEPT !.indexed_at = now] ELSE o : o \in db.objs}]

(***************************************************************************)
(* Inputs: the objects the OCFL reader hands to SetObject.                 *)
(***************************************************************************)
\* The version states: "a" carries either digest, "d/b" only the first.
States ==
    {DigestMap(pm) : pm \in {q \in PathMapsOver(LPaths) : "d/b" \in DOMAIN q => q["d/b"] = "d1"}}

VersionLists == UNION {[1..n -> States] : n \in 1..MaxHead}

Manifests == PathMapsOver(CPaths) \ {<<>>}

StateDigests(versions) ==
    UNION {DOMAIN versions[i] : i \in 1..Len(versions)}

\* An inventory the reader accepts: the manifest holds exactly the digests
\* the version states use.
ValidObject(obj) ==
    {obj.manifest[c] : c \in DOMAIN obj.manifest} = StateDigests(obj.versions)

\* Content is stored once per digest, under a path that never changes.
ContentPathOf == [d \in Digests |-> IF d = "d1" THEN "c1" ELSE "c2"]

StableManifest(manifest) == \A c \in DOMAIN manifest : ContentPathOf[manifest[c]] = c

\* The objects SetObject is given in SpecIndex.
Objects ==
    {o \in [versions : VersionLists, manifest : PathMapsOver(CPaths),
            inventoryDigest : {"inv"}, storagePath : {"sp"}] :
        ValidObject(o) /\ StableManifest(o.manifest)}

\* The orders in which the manifest map can yield its content paths.
Orders(manifest) ==
    LET n == Cardinality(DOMAIN manifest)
    IN {s \in [1..n -> DOMAIN manifest] : \A i, j \in 1..n : i # j => s[i] # s[j]}

\* The content file the digest subquery can return, per digest.
Picks(manifest) ==
    {pk \in [{manifest[c] : c \in DOMAIN manifest} -> DOMAIN manifest] :
        \A d \in DOMAIN pk : manifest[pk[d]] = d}

(***************************************************************************)
(* Index store: actions                                                    *)
(***************************************************************************)
InitIndex ==
    /\ roots = {}
    /\ objs = {}
    /\ cfiles = {}
    /\ vers = {}
    /\ vfiles = {}
    /\ clock = 0
    /\ lastObj = [k \in Keys |-> NoObject]
    /\ prevHead = [k \in Keys |-> 0]
    /\ conn = [c \in Conns |-> [pc |-> "idle", k |-> <<RootName, ObjID>>, now |-> 0]]
    /\ store = NoObject
    /\ call = [p \in Callers |-> [pc |-> "idle", brief |-> {}, side |-> "", res |-> {}, floor |-> -1]]
    /\ flight = [leader |-> NoLeader, waiters |-> {}]
    /\ reads = <<>>
    /\ io = [sidecar |-> FALSE, inventory |-> FALSE]
    /\ returned = -1
    /\ scan = [decl |-> [id \in {"o1", "o2"} |-> "absent"], pc |-> "idle", todo |-> <<>>,
               logged |-> {}, indexed |-> <<>>, got |-> {}]
    /\ op = NoCall
    /\ tx = NoTx

Install(db) ==
    /\ objs' = db.objs
    /\ cfiles' = db.cf
    /\ vers' = db.vs
    /\ vfiles' = db.vf

\* DB.setObject: ocflite.SetObject in one transaction, rolled back on error.
\* The transaction holds the write lock from setRoot on, so the clock is read
\* and the rows are written with no other write in between.
SetObjectFrom(k, objects) ==
    \E obj \in objects :
    \E order \in Orders(obj.manifest), pick \in Picks(obj.manifest) :
        \E res \in {ocfliteSetObject(DB, k, obj, clock, order, pick)} :
           /\ \A f \in res.cf : f.id <= MaxRowId
           /\ roots' = roots \cup {k[1]}
           /\ IF res.ok
              THEN /\ Install(res)
                   /\ lastObj' = [lastObj EXCEPT ![k] = obj]
                   /\ prevHead' = [prevHead EXCEPT ![k] = Head_(DB, k)]
              ELSE UNCHANGED <<objs, cfiles, vers, vfiles, lastObj, prevHead>>
           /\ UNCHANGED <<callVars, clock, conn, scan, syncVars, scan>>

SetObject(k) == SetObjectFrom(k, Objects)

\* DB.UnsetObject
UnsetObject(k) ==
    /\ Install(ocfliteUnsetObject(DB, k))
    /\ lastObj' = [lastObj EXCEPT ![k] = NoObject]
    /\ prevHead' = [prevHead EXCEPT ![k] = 0]
    /\ UNCHANGED <<callVars, roots, clock, conn, scan, syncVars, scan>>

NextIndex == \E k \in Keys : SetObject(k) \/ UnsetObject(k)

SpecIndex == InitIndex /\ [][NextIndex]_vars

(***************************************************************************)
(* The version list alone: objects whose states hold the one path "a".     *)
(***************************************************************************)
OnePathStates == {DigestMap(pm) : pm \in PathMapsOver({"a"})}

OnePathObjects ==
    {o \in [versions : UNION {[1..n -> OnePathStates] : n \in 1..MaxHead},
            manifest : PathMapsOver(CPaths),
            inventoryDigest : {"inv"}, storagePath : {"sp"}] :
        ValidObject(o) /\ StableManifest(o.manifest)}

SetObjectOnePath(k) == SetObjectFrom(k, OnePathObjects)

NextHeads == \E k \in Keys : SetObjectOnePath(k) \/ UnsetObject(k)

SpecHeads == InitIndex /\ [][NextHeads]_vars

(***************************************************************************)
(* Concurrent writers of one object: DB.SetObject and DB.TouchObject on    *)
(* connections of the pool.                                                *)
(***************************************************************************)
\* The two inventories of the object the writers index.
InvA == [versions |-> <<DigestMap("a" :> "d1")>>, manifest |-> ("c1" :> "d1"),
         inventoryDigest |-> "i1", storagePath |-> "sp"]
InvB == [versions |-> <<DigestMap("a" :> "d1"), DigestMap("a" :> "d2")>>,
         manifest |-> ("c1" :> "d1" @@ "c2" :> "d2"),
         inventoryDigest |-> "i2", storagePath |-> "sp"]
Inventories == {InvA, InvB}

SetObjectInv(k) == SetObjectFrom(k, Inventories)

\* time passes
Tick ==
    /\ clock < MaxClock
    /\ clock' = clock + 1
    /\ UNCHANGED <<callVars, idxVars, histVars, conn, syncVars, scan>>

\* ocflite.TouchObject, first half: the arguments of the statement are
\* evaluated, time.Now().Unix() among them.
TouchObjectArgs(c, k) ==
    /\ conn[c].pc = "idle"
    /\ conn' = [conn EXCEPT ![c] = [pc |-> "exec", k |-> k, now |-> clock]]
    /\ UNCHANGED <<callVars, idxVars, histVars, clock, syncVars, scan>>

\* ocflite.TouchObject, second half: set_object_indexed_at.sql runs (outside
\* any transaction, once the connection gets the write lock).
TouchObjectExec(c) ==
    /\ conn[c].pc = "exec"
    /\ Install(ocfliteTouchObject(DB, conn[c].k, conn[c].now))
    /\ conn' = [conn EXCEPT ![c].pc = "idle"]
    /\ UNCHANGED <<callVars, roots, histVars, clock, syncVars, scan>>

NextDB ==
    \/ Tick
    \/ \E k \in Keys : SetObjectInv(k)
    \/ \E c \in Conns, k \in Keys : TouchObjectArgs(c, k)
    \/ \E c \in Conns : TouchObjectExec(c)

SpecDB == InitIndex /\ [][NextDB]_vars

\* C10: the stored indexed_at of an object never decreases: in any
\* interleaving of SetObject and TouchObject calls, the value after a write is
\* greater than or equal to the value before it.
C10_IndexedAtNeverDecreases ==
    [][\A o \in objs : \A n \in objs' : n.k = o.k => n.indexed_at >= o.indexed_at]_vars

(***************************************************************************)
(* Sync controller: SyncObject(id) of the access service, for one object.  *)
(* The protocol is the one of spec.md 4.3; the index operations are the    *)
(* ones above.  The backing store changes only between calls.              *)
(***************************************************************************)
K == <<RootName, ObjID>>

\* Size of each content file in the backing store.
StatSize == [c \in CPaths |-> IF c = "c1" THEN 10 ELSE 20]

\* DB.setObjectFileSizes: per digest that has a content file without size,
\* stat one such file and set the size of every content file with the digest.
setObjectFileSizes(db, k, pathOf) ==
    [db EXCEPT !.cf = {IF f.k = k /\ f.digest \in DOMAIN pathOf
                       THEN [f EXCEPT !.size = StatSize[pathOf[f.digest]]]
                       ELSE f : f \in db.cf}]

\* The (digest -> content path) maps setObjectFileSizes can collect.
Missing(db, k) ==
    LET lacking == {f \in db.cf : f.k = k /\ f.size = UnknownSize}
    IN {m \in [{f.digest : f \in lacking} -> {f.path : f \in lacking}] :
          \A d \in DOMAIN m : \E f \in lacking : f.digest = d /\ f.path = m[d]}

Stale(b) == clock >= b.indexedAt + RefreshInterval

LeaderPcs == {"sidecar", "compare", "unset", "upsert", "backfill", "publish"}

Goto(p, pc) == call' = [call EXCEPT ![p].pc = pc]

\* Steps 1 and 2: the brief exists and is fresh; it is returned as it is.
SoftFresh(p) ==
    /\ call[p].pc = "idle"
    /\ \E b \in GetObjectBrief(DB, K) :
         /\ ~Stale(b)
         /\ call' = [call EXCEPT ![p] = [pc |-> "done", brief |-> {b}, side |-> "",
                                         res |-> {b}, floor |-> returned]]
    /\ UNCHANGED <<callVars, idxVars, histVars, clock, conn, scan, store, flight, reads, io, returned>>

\* Steps 1 and 2: the brief exists and is stale.
LookupStale(p) ==
    /\ call[p].pc = "idle"
    /\ \E b \in GetObjectBrief(DB, K) :
         /\ Stale(b)
         /\ call' = [call EXCEPT ![p] = [pc |-> "join", brief |-> {b}, side |-> "",
                                         res |-> {}, floor |-> returned]]
    /\ UNCHANGED <<callVars, idxVars, histVars, clock, conn, scan, store, flight, reads, io, returned>>

\* Step 1: there is no brief.
LookupNone(p) ==
    /\ call[p].pc = "idle"
    /\ GetObjectBrief(DB, K) = {}
    /\ call' = [call EXCEPT ![p] = [pc |-> "decl", brief |-> {}, side |-> "",
                                    res |-> {}, floor |-> returned]]
    /\ UNCHANGED <<callVars, idxVars, histVars, clock, conn, scan, store, flight, reads, io, returned>>

\* Step 1: no brief and no declaration in the backing store: any stale row
\* is cleared and the call returns NotFound.
NotDeclared(p) ==
    /\ call[p].pc = "decl"
    /\ store = NoObject
    /\ Install(ocfliteUnsetObject(DB, K))
    /\ call' = [call EXCEPT ![p].pc = "done", ![p].res = {}]
    /\ UNCHANGED <<callVars, roots, histVars, clock, conn, scan, store, flight, reads, io, returned>>

\* Step 1: no brief, and the backing store declares the object.
Declared(p) ==
    /\ call[p].pc = "decl"
    /\ store # NoObject
    /\ Goto(p, "join")
    /\ UNCHANGED <<callVars, idxVars, histVars, clock, conn, scan, store, flight, reads, io, returned>>

\* Step 3: the caller finds no entry for the key and becomes the leader.
Lead(p) ==
    /\ call[p].pc = "join"
    /\ flight.leader = NoLeader
    /\ flight' = [leader |-> p, waiters |-> {}]
    /\ Goto(p, "sidecar")
    /\ UNCHANGED <<callVars, idxVars, histVars, clock, conn, scan, store, reads, io, returned>>

\* Step 3: the caller finds the entry and waits for the leader's result.
Follow(p) ==
    /\ call[p].pc = "join"
    /\ flight.leader # NoLeader
    /\ flight' = [flight EXCEPT !.waiters = @ \cup {p}]
    /\ Goto(p, "wait")
    /\ UNCHANGED <<callVars, idxVars, histVars, clock, conn, scan, store, reads, io, returned>>

\* Step 4: the leader reads the sidecar ("" when it cannot be read).
ReadSidecar(p) ==
    /\ call[p].pc = "sidecar"
    /\ call' = [call EXCEPT ![p].pc = "compare", ![p].side = store.inventoryDigest]
    /\ io' = [io EXCEPT !.sidecar = ~@]
    /\ UNCHANGED <<callVars, idxVars, histVars, clock, conn, scan, store, flight, reads, returned>>

SidecarUnchanged(p) ==
    /\ call[p].side # ""
    /\ \E o \in objs : o.k = K /\ o.inventory_digest = call[p].side

\* Step 4: the sidecar digest equals the stored inventory_digest: TouchObject.
TouchUnchanged(p) ==
    /\ call[p].pc = "compare"
    /\ SidecarUnchanged(p)
    /\ \E db \in {ocfliteTouchObject(DB, K, clock)} :
         /\ Install(db)
         /\ call' = [call EXCEPT ![p].pc = "publish", ![p].res = GetObjectBrief(db, K)]
    /\ UNCHANGED <<callVars, roots, histVars, clock, conn, scan, store, flight, reads, io, returned>>

\* Steps 5 and 7: the sidecar differs or is unreadable: NewObject reads the
\* inventory, or finds none.
ReadInventory(p) ==
    /\ call[p].pc = "compare"
    /\ ~SidecarUnchanged(p)
    /\ io' = [io EXCEPT !.inventory = ~@]
    /\ IF store = NoObject
       THEN Goto(p, "unset") /\ UNCHANGED reads
       ELSE /\ Goto(p, "upsert")
            /\ reads' = IF reads = <<>> THEN <<clock>> ELSE <<reads[Len(reads)], clock>>
    /\ UNCHANGED <<callVars, idxVars, histVars, clock, conn, scan, store, flight, returned>>

\* Step 7: the object was removed from the backing store.
UnsetRemoved(p) ==
    /\ call[p].pc = "unset"
    /\ Install(ocfliteUnsetObject(DB, K))
    /\ call' = [call EXCEPT ![p].pc = "publish", ![p].res = {}]
    /\ UNCHANGED <<callVars, roots, histVars, clock, conn, scan, store, flight, reads, io, returned>>

\* Step 5: DB.setObject with the inventory read.
Upsert(p) ==
    /\ call[p].pc = "upsert"
    /\ \E order \in Orders(store.manifest), pick \in Picks(store.manifest) :
       \E db \in {ocfliteSetObject(DB, K, store, clock, order, pick)} :
         /\ db.ok
         /\ \A f \in db.cf : f.id <= MaxRowId
         /\ Install(db)
    /\ roots' = roots \cup {K[1]}
    /\ Goto(p, "backfill")
    /\ UNCHANGED <<callVars, histVars, clock, conn, scan, store, flight, reads, io, returned>>

\* Step 6 with a backfill whose failure fails the call: no brief is returned.
BackfillFatal(p) ==
    /\ call[p].pc = "backfill"
    /\ \E statOk \in BOOLEAN :
         IF statOk
         THEN /\ \E pathOf \in Missing(DB, K) : Install(setObjectFileSizes(DB, K, pathOf))
              /\ call' = [call EXCEPT ![p].pc = "publish", ![p].res = GetObjectBrief(DB, K)]
         ELSE /\ UNCHANGED <<objs, cfiles, vers, vfiles>>
              /\ call' = [call EXCEPT ![p].pc = "publish", ![p].res = {}]
    /\ UNCHANGED <<callVars, roots, histVars, clock, conn, scan, store, flight, reads, io, returned>>

\* Step 6: DB.setObjectFileSizes; a failed stat leaves the sizes unknown.
Backfill(p) ==
    /\ call[p].pc = "backfill"
    /\ \E statOk \in BOOLEAN :
         IF statOk
         THEN \E pathOf \in Missing(DB, K) : Install(setObjectFileSizes(DB, K, pathOf))
         ELSE UNCHANGED <<objs, cfiles, vers, vfiles>>
    /\ call' = [call EXCEPT ![p].pc = "publish", ![p].res = GetObjectBrief(DB, K)]
    /\ UNCHANGED <<callVars, roots, histVars, clock, conn, scan, store, flight, reads, io, returned>>

\* Step 3: the leader's work ends: the entry is dropped and every follower
\* receives the leader's result.
Publish(p) ==
    /\ call[p].pc = "publish"
    /\ flight' = [leader |-> NoLeader, waiters |-> {}]
    /\ call' = [q \in Callers |->
                  IF q = p THEN [call[q] EXCEPT !.pc = "done"]
                  ELSE IF q \in flight.waiters
                       THEN [call[q] EXCEPT !.pc = "done", !.res = call[p].res]
                       ELSE call[q]]
    /\ UNCHANGED <<callVars, idxVars, histVars, clock, conn, scan, store, reads, io, returned>>

\* The call returns to its caller.
Return(p) ==
    /\ call[p].pc = "done"
    /\ call' = [call EXCEPT ![p] = [pc |-> "idle", brief |-> {}, side |-> "",
                                    res |-> {}, floor |-> -1]]
    /\ returned' = Max({returned} \cup {b.indexedAt : b \in call[p].res})
    /\ UNCHANGED <<callVars, idxVars, histVars, clock, conn, scan, store, flight, reads, io>>

\* The object is written to, replaced in or removed from the backing store
\* while no call runs.
StoreChange ==
    /\ \A p \in Callers : call[p].pc = "idle"
    /\ store' \in ({NoObject} \cup Inventories) \ {store}
    /\ UNCHANGED <<callVars, idxVars, histVars, clock, conn, scan, call, flight, reads, io, returned>>

NextSync ==
    \/ Tick
    \/ StoreChange
    \/ \E p \in Callers :
         \/ SoftFresh(p) \/ LookupStale(p) \/ LookupNone(p)
         \/ NotDeclared(p) \/ Declared(p)
         \/ Lead(p) \/ Follow(p)
         \/ ReadSidecar(p) \/ TouchUnchanged(p) \/ ReadInventory(p)
         \/ UnsetRemoved(p) \/ Upsert(p) \/ Backfill(p)
         \/ Publish(p) \/ Return(p)

SpecSync == InitIndex /\ [][NextSync]_vars

(***************************************************************************)
(* IndexRoot of the access service (spec.md 4.3): the same protocol, run   *)
(* for every object declaration of the backing store, keyed by storage     *)
(* path.  The declarations do not change while a scan runs.                *)
(***************************************************************************)
ScanIDSet == {ScanIDs[i] : i \in 1..Len(ScanIDs)}

StoragePathOf == [id \in ScanIDSet |-> IF id = "o1" THEN "sp" ELSE "sp2"]

KeyOf(id) == <<RootName, id>>

\* The inventory of a readable declaration.
InventoryOf(id) == [InvA EXCEPT !.storagePath = StoragePathOf[id]]

\* GetObjectBriefByPath (get_object_by_path.sql)
GetObjectBriefByPath(db, root, storagePath) ==
    {[id |-> o.k[2], storagePath |-> storagePath, inventoryDigest |-> o.inventory_digest,
      indexedAt |-> o.indexed_at, head |-> Head_(db, o.k)]
        : o \in {x \in db.objs : x.k[1] = root /\ x.storage_path = storagePath}}

\* An object is written to, damaged in or removed from the backing store.
DeclChange ==
    /\ scan.pc = "idle"
    /\ \E id \in ScanIDSet : \E d \in {"absent", "readable", "unreadable"} \ {scan.decl[id]} :
         scan' = [scan EXCEPT !.decl[id] = d]
    /\ UNCHANGED <<callVars, idxVars, histVars, clock, conn, syncVars>>

\* IndexRoot starts: it lists the declarations.
StartIndexRoot ==
    /\ scan.pc = "idle"
    /\ LET Declared_(id) == scan.decl[id] # "absent"
       IN scan' = [scan EXCEPT !.pc = "scan", !.todo = SelectSeq(ScanIDs, Declared_),
                               !.logged = {}, !.indexed = <<>>, !.got = {}]
    /\ UNCHANGED <<callVars, idxVars, histVars, clock, conn, syncVars>>

Scanned(id, wrote, failed) ==
    scan' = [scan EXCEPT !.todo = Tail(@),
                         !.logged = IF failed THEN @ \cup {id} ELSE @,
                         !.indexed = IF wrote THEN (id :> clock) @@ @ ELSE @]

\* IndexRoot, one declaration: the brief found by storage path is fresh.
ScanFresh ==
    /\ scan.pc = "scan" /\ scan.todo # <<>>
    /\ \E b \in GetObjectBriefByPath(DB, RootName, StoragePathOf[Head(scan.todo)]) : ~Stale(b)
    /\ Scanned(Head(scan.todo), FALSE, FALSE)
    /\ UNCHANGED <<callVars, idxVars, histVars, clock, conn, syncVars>>

NeedsSync(id) ==
    \A b \in GetObjectBriefByPath(DB, RootName, StoragePathOf[id]) : Stale(b)

\* IndexRoot, one declaration: the object cannot be read; the error is
\* logged and the scan goes on.
ScanFailed ==
    /\ scan.pc = "scan" /\ scan.todo # <<>>
    /\ NeedsSync(Head(scan.todo))
    /\ scan.decl[Head(scan.todo)] = "unreadable"
    /\ Scanned(Head(scan.todo), FALSE, TRUE)
    /\ UNCHANGED <<callVars, idxVars, histVars, clock, conn, syncVars>>

\* IndexRoot, one declaration: the sidecar equals the stored digest.
ScanTouch ==
    /\ scan.pc = "scan" /\ scan.todo # <<>>
    /\ LET id == Head(scan.todo) IN
         /\ NeedsSync(id)
         /\ scan.decl[id] = "readable"
         /\ \E b \in GetObjectBriefByPath(DB, RootName, StoragePathOf[id]) :
                b.inventoryDigest = InventoryOf(id).inventoryDigest
         /\ Install(ocfliteTouchObject(DB, KeyOf(id), clock))
         /\ Scanned(id, TRUE, FALSE)
    /\ UNCHANGED <<callVars, roots, histVars, clock, conn, syncVars>>

\* IndexRoot, one declaration: DB.SetObject with the inventory read.
ScanSetObject ==
    /\ scan.pc = "scan" /\ scan.todo # <<>>
    /\ LET id == Head(scan.todo) IN
         /\ NeedsSync(id)
         /\ scan.decl[id] = "readable"
         /\ \A b \in GetObjectBriefByPath(DB, RootName, StoragePathOf[id]) :
                b.inventoryDigest # InventoryOf(id).inventoryDigest
         /\ \E order \in Orders(InventoryOf(id).manifest), pick \in Picks(InventoryOf(id).manifest) :
            \E db \in {ocfliteSetObject(DB, KeyOf(id), InventoryOf(id), clock, order, pick)} :
            \E statOk \in BOOLEAN :
              /\ db.ok
              /\ \A f \in db.cf : f.id <= MaxRowId
              /\ IF statOk
                 THEN \E pathOf \in Missing(db, KeyOf(id)) :
                          Install(setObjectFileSizes(db, KeyOf(id), pathOf))
                 ELSE Install(db)
         /\ Scanned(id, TRUE, FALSE)
    /\ roots' = roots \cup {RootName}
    /\ UNCHANGED <<callVars, histVars, clock, conn, syncVars>>

\* IndexRoot returns.
FinishIndexRoot ==
    /\ scan.pc = "scan" /\ scan.todo = <<>>
    /\ scan' = [scan EXCEPT !.pc = "returned"]
    /\ UNCHANGED <<callVars, idxVars, histVars, clock, conn, syncVars>>

\* SyncObject(id) after IndexRoot returned: the fresh brief is returned, a
\* stale one is synced again (TouchObject, the inventory being the same).
SyncAfterScan(id) ==
    /\ scan.pc = "returned"
    /\ \E b \in GetObjectBrief(DB, KeyOf(id)) :
         IF ~Stale(b)
         THEN /\ scan' = [scan EXCEPT !.got = @ \cup {[id |-> id, at |-> clock, brief |-> b,
                                                      again |-> FALSE]}]
              /\ UNCHANGED idxVars
         ELSE /\ scan.decl[id] = "readable"
              /\ \E db \in {ocfliteTouchObject(DB, KeyOf(id), clock)} :
                   /\ Install(db)
                   /\ scan' = [scan EXCEPT !.got = @ \cup
                                 {[id |-> id, at |-> clock, again |-> TRUE,
                                   brief |-> CHOOSE n \in GetObjectBrief(db, KeyOf(id)) : TRUE]}]
              /\ UNCHANGED roots
    /\ UNCHANGED <<callVars, histVars, clock, conn, syncVars>>

\* The caller of IndexRoot goes on.
ScanDone ==
    /\ scan.pc = "returned"
    /\ scan' = [scan EXCEPT !.pc = "idle", !.logged = {}, !.indexed = <<>>, !.got = {}]
    /\ UNCHANGED <<callVars, idxVars, histVars, clock, conn, syncVars>>

NextRoot ==
    \/ Tick
    \/ DeclChange
    \/ StartIndexRoot
    \/ ScanFresh \/ ScanFailed \/ ScanTouch \/ ScanSetObject
    \/ FinishIndexRoot
    \/ \E id \in ScanIDSet : SyncAfterScan(id)
    \/ ScanDone

SpecRoot == InitIndex /\ [][NextRoot]_vars

\* C11: when IndexRoot has returned, every declared object whose inventory
\* is readable is in the index, whether or not another object failed; and a
\* SyncObject issued less than a refresh interval after IndexRoot indexed the
\* object returned the brief IndexRoot indexed, without indexing again.
C11_IndexRootReconcilesAll ==
    scan.pc = "returned" =>
        /\ \A id \in ScanIDSet : scan.decl[id] = "readable" =>
              \E o \in objs : o.k = KeyOf(id) /\ Head_(DB, o.k) >= 1
        /\ \A g \in scan.got :
              (g.id \in DOMAIN scan.indexed /\ g.at < scan.indexed[g.id] + RefreshInterval)
                 => ~g.again /\ g.brief.indexedAt = scan.indexed[g.id]

\* C11 witness: IndexRoot has returned after logging the failure of the
\* first object and indexing the second, and a later SyncObject of the second
\* has returned the brief of the scan.
C11_Witness ==
    /\ scan.pc = "returned"
    /\ scan.logged = {"o1"} /\ "o2" \in DOMAIN scan.indexed
    /\ \E g \in scan.got : g.id = "o2" /\ g.at > scan.indexed["o2"] /\ ~g.again

(***************************************************************************)
(* Queries over a directory tree: DB.SetObject with version states over    *)
(* TreePaths, followed by the queries of a reader.                         *)
(***************************************************************************)
\* The version states of the tree: a file at the root, two files in the
\* directory d, one in the directory D; files appear, change digest, move
\* and disappear between them.
TreeStates ==
    {DigestMap(pm) : pm \in {<<>>,
                             "a" :> "d1",
                             "d/a" :> "d1" @@ "d/b" :> "d2",
                             "d/b" :> "d2",
                             "d/a" :> "d1",
                             "d/a" :> "d2",
                             "D/c" :> "d1"}}

TreeObjects ==
    {o \in [versions : UNION {[1..n -> TreeStates] : n \in 1..MaxHead},
            manifest : PathMapsOver(CPaths),
            inventoryDigest : {"inv"}, storagePath : {"sp"}] :
        ValidObject(o) /\ StableManifest(o.manifest)}

\* DB.SetObject: DB.setObject, then DB.setObjectFileSizes, whose stats can
\* fail and leave the sizes as they are.
SetObjectTree(k) ==
    \E obj \in TreeObjects :
    \E order \in Orders(obj.manifest), pick \in Picks(obj.manifest) :
    \E db \in {ocfliteSetObject(DB, k, obj, clock, order, pick)} :
    \E statOk \in BOOLEAN :
       /\ \A f \in db.cf : f.id <= MaxRowId
       /\ roots' = roots \cup {k[1]}
       /\ IF db.ok
          THEN IF statOk
               THEN \E pathOf \in Missing(db, k) : Install(setObjectFileSizes(db, k, pathOf))
               ELSE Install(db)
          ELSE UNCHANGED <<objs, cfiles, vers, vfiles>>
       /\ UNCHANGED <<callVars, histVars, clock, conn, syncVars, scan>>

NextTree == \E k \in Keys : SetObjectTree(k) \/ UnsetObject(k)

SpecTree == InitIndex /\ [][NextTree]_vars

(***************************************************************************)
(* Errors: an error value is the sentinel errors.Is finds in it.           *)
(***************************************************************************)
NoError == "nil"
ErrNotFound == "ocflite.ErrNotFound"
AccessErrNotFound == "access.ErrNotFound"
ErrOther == "error"

\* fmt.Errorf("...: %w", err): the new error wraps err
ErrorfW(err) == err

\* fmt.Errorf("...: %v", err): the new error holds the text of err only
ErrorfV(err) == ErrOther

\* GetVersion: the error it returns
GetVersionErr(db, k, vn) ==
    IF GetVersion(db, k, vn) = {} THEN ErrorfV(ErrNotFound) ELSE NoError

\* StatVersionFile: the error it returns
StatVersionFileErr(db, k, vn, name) ==
    IF GetVersionErr(db, k, vn) # NoError THEN GetVersionErr(db, k, vn)
    ELSE IF StatVersionFile(db, k, vn, name) = {} THEN ErrorfW(ErrNotFound)
    ELSE NoError

\* ReadVersionDir: the error it returns
ReadVersionDirErr(db, k, vn, dir) ==
    IF ReadVersionDir(db, k, vn, dir).notFound THEN ErrorfW(ErrNotFound) ELSE NoError

\* GetVersionChanges: the error it returns
GetVersionChangesErr(db, k, fromVN, toVN) ==
    IF fromVN < 0 \/ toVN < 1 THEN ErrOther
    ELSE IF GetVersionErr(db, k, toVN) # NoError THEN ErrorfW(GetVersionErr(db, k, toVN))
    ELSE IF fromVN > 0 /\ GetVersionErr(db, k, fromVN) # NoError
         THEN ErrorfW(GetVersionErr(db, k, fromVN))
    ELSE NoError

\* The methods of DB: an ocflite.ErrNotFound becomes access.ErrNotFound,
\* every other error is passed on.
AccessErr(err) == IF err = ErrNotFound THEN AccessErrNotFound ELSE err

\* DB.GetObjectVersion
GetObjectVersion(db, k, vn) ==
    [err |-> AccessErr(GetVersionErr(db, k, vn)),
     val |-> {[vnum |-> v.vnum, state_digest |-> v.state_digest] : v \in GetVersion(db, k, vn)}]

\* DB.ReadObjectVersionDir
ReadObjectVersionDir(db, k, vn, dir) ==
    [err |-> AccessErr(ReadVersionDirErr(db, k, vn, dir)),
     val |-> ReadVersionDir(db, k, vn, dir).entries]

\* DB.StatObjectVersionFile
StatObjectVersionFile(db, k, vn, name) ==
    IF StatVersionFileErr(db, k, vn, name) # NoError
    THEN [err |-> AccessErr(StatVersionFileErr(db, k, vn, name)), val |-> {}]
    ELSE [err |-> NoError, val |-> StatVersionFile(db, k, vn, name)]

(***************************************************************************)
(* Queries as calls: each call runs SELECT statements only and leaves its  *)
(* result in op.  The index is written by DB.SetObject with one of the two *)
(* inventories and by DB.UnsetObject.                                      *)
(***************************************************************************)
\* The version numbers the calls are given.
QueryVersions == (0 - 1) .. (MaxHead + 1)

Called(name, k, args, res) ==
    /\ op' = [name |-> name, k |-> k, args |-> args, res |-> res, n |-> 1 - op.n]
    /\ UNCHANGED <<idxVars, histVars, clock, conn, syncVars, scan, tx>>

\* ocflite.GetVersionChanges
CallGetVersionChanges(k) ==
    \E fromVN \in QueryVersions, toVN \in QueryVersions :
        Called("GetVersionChanges", k, <<fromVN, toVN>>,
               [err |-> GetVersionChangesErr(DB, k, fromVN, toVN),
                val |-> GetVersionChanges(DB, k, fromVN, toVN)])

\* DB.GetObjectVersion
CallGetObjectVersion(k) ==
    \E vn \in QueryVersions :
        Called("GetObjectVersion", k, <<vn>>, GetObjectVersion(DB, k, vn))

\* DB.ReadObjectVersionDir
CallReadObjectVersionDir(k) ==
    \E vn \in QueryVersions :
        Called("ReadObjectVersionDir", k, <<vn, ".">>, ReadObjectVersionDir(DB, k, vn, "."))

\* DB.StatObjectVersionFile
CallStatObjectVersionFile(k) ==
    \E vn \in QueryVersions :
        Called("StatObjectVersionFile", k, <<vn, "a">>, StatObjectVersionFile(DB, k, vn, "a"))

NextQuery ==
    \E k \in Keys :
        \/ SetObjectInv(k)
        \/ UnsetObject(k)
        \/ CallGetVersionChanges(k)
        \/ CallGetObjectVersion(k)
        \/ CallReadObjectVersionDir(k)
        \/ CallStatObjectVersionFile(k)

SpecQuery == InitIndex /\ [][NextQuery]_vars

(***************************************************************************)
(* Several objects in one index: two objects of one root and an object of  *)
(* a second root with the same id, all with the same content.              *)
(***************************************************************************)
ManyKeys == {<<"r1", "o1">>, <<"r1", "o2">>, <<"r2", "o1">>}

\* The inventories of an object; the storage path is the object's own.
InventoriesOf(k) == {[inv EXCEPT !.storagePath = k[2]] : inv \in Inventories}

\* DB.SetObject of one of several objects
SetObjectOf(k) ==
    \E obj \in InventoriesOf(k) :
    \E order \in Orders(obj.manifest), pick \in Picks(obj.manifest) :
    \E db \in {ocfliteSetObject(DB, k, obj, clock, order, pick)} :
       /\ db.ok
       /\ \A f \in db.cf : f.id <= MaxRowId
       /\ Install(db)
       /\ roots' = roots \cup {k[1]}
       /\ op' = [name |-> "SetObject", k |-> k, args |-> <<obj.inventoryDigest>>,
                 res |-> [err |-> NoError], n |-> 1 - op.n]
       /\ UNCHANGED <<histVars, clock, conn, syncVars, scan, tx>>

\* DB.UnsetObject of one of several objects; found records whether the
\* object had a row.
UnsetObjectOf(k) ==
    /\ Install(ocfliteUnsetObject(DB, k))
    /\ op' = [name |-> "UnsetObject", k |-> k, args |-> <<>>,
              res |-> [err |-> NoError, found |-> \E o \in objs : o.k = k],
              n |-> 1 - op.n]
    /\ UNCHANGED <<roots, histVars, clock, conn, syncVars, scan, tx>>

NextMany == \E k \in ManyKeys : SetObjectOf(k) \/ UnsetObjectOf(k)

SpecMany == InitIndex /\ [][NextMany]_vars

(***************************************************************************)
(* DB.SetObject step by step: the transaction of DB.setObject on a working *)
(* copy that other connections do not see before it commits, then the size *)
(* backfill of DB.setObjectFileSizes: the content files without size, one   *)
(* stat per digest, and the size transaction.  The caller's context can be *)
(* cancelled at any point of the call.                                     *)
(***************************************************************************)
\* The inventories: one content file, two content files of one digest, two
\* of two digests, and the first content path with another digest.
SizeObjects ==
    {[versions |-> <<DigestMap("a" :> "d1")>>, manifest |-> ("c1" :> "d1"),
      inventoryDigest |-> "i1", storagePath |-> "sp"],
     [versions |-> <<DigestMap("a" :> "d1")>>, manifest |-> ("c1" :> "d1" @@ "c2" :> "d1"),
      inventoryDigest |-> "i2", storagePath |-> "sp"],
     [versions |-> <<DigestMap("a" :> "d1"), DigestMap("a" :> "d2")>>,
      manifest |-> ("c1" :> "d1" @@ "c2" :> "d2"),
      inventoryDigest |-> "i3", storagePath |-> "sp"],
     [versions |-> <<DigestMap("a" :> "d2")>>, manifest |-> ("c1" :> "d2"),
      inventoryDigest |-> "i4", storagePath |-> "sp"]}

\* The sizes a stat can report.
Sizes == {StatSize[c] : c \in CPaths}

\* set_object_file_size.sql that updates one of the rows with the digest.
SetObjectFileSizeOneRow(db, k, digest, size) ==
    LET rows == {f \in db.cf : f.k = k /\ f.digest = digest}
    IN [db EXCEPT !.cf = {IF f \in rows /\ \A g \in rows : f.id <= g.id
                          THEN [f EXCEPT !.size = size] ELSE f : f \in db.cf}]

\* SetObjectFileSize, set_object_file_size.sql: every content file of the
\* object with the digest gets the size.
SetObjectFileSize(db, k, digest, size) ==
    [db EXCEPT !.cf = {IF f.k = k /\ f.digest = digest
                       THEN [f EXCEPT !.size = size] ELSE f : f \in db.cf}]

\* DB.setObjectFileSizes, the size transaction: SetObjectFileSize per digest
RECURSIVE writeSizes(_, _, _)
writeSizes(db, k, sizes) ==
    IF DOMAIN sizes = {} THEN db
    ELSE LET d == CHOOSE x \in DOMAIN sizes : TRUE
         IN writeSizes(SetObjectFileSize(db, k, d, sizes[d]), k,
                       [x \in DOMAIN sizes \ {d} |-> sizes[x]])

\* A transaction that commits what it wrote also when it failed.
endTransactionKeep(before, work, failed) == work

\* sqlitex.Transaction and the deferred commit(&err): the writes of the
\* transaction on success, the index as it was on error.
endTransaction(before, work, failed) == IF failed THEN before ELSE work

\* batchStatFiles that returns the sizes it has, without error, when a
\* worker failed.
batchStatFilesPartial(sizes, failed) == [err |-> FALSE, sizes |-> sizes]

\* batchStatFiles: the result once the group has finished
batchStatFiles(sizes, failed) ==
    IF failed THEN [err |-> TRUE, sizes |-> <<>>] ELSE [err |-> FALSE, sizes |-> sizes]

TxPcs == {"root", "object", "files", "versions", "commit"}

Returned(res, missing) == tx' = [NoTx EXCEPT !.res = res, !.missing = missing]

\* DB.SetObject is called: DB.setObject takes a connection and begins.
Begin ==
    /\ tx.pc = "idle"
    /\ \E obj \in SizeObjects :
         tx' = [NoTx EXCEPT !.pc = "root", !.obj = obj, !.before = DB, !.work = DB]
    /\ UNCHANGED <<idxVars, histVars, clock, conn, syncVars, scan, op>>

\* The caller's context is cancelled.
Cancel ==
    /\ tx.pc # "idle" /\ ~tx.cancelled
    /\ tx' = [tx EXCEPT !.cancelled = TRUE]
    /\ UNCHANGED <<idxVars, histVars, clock, conn, syncVars, scan, op>>

\* ocflite.SetObject: setRoot
TxSetRoot ==
    /\ tx.pc = "root" /\ ~tx.cancelled
    /\ tx' = [tx EXCEPT !.pc = "object"]
    /\ UNCHANGED <<idxVars, histVars, clock, conn, syncVars, scan, op>>

\* ocflite.SetObject: setRoot fails and SetObject returns nil; the empty
\* transaction commits and DB.SetObject goes on to the backfill.
TxSetRootFails ==
    /\ tx.pc = "root" /\ ~tx.cancelled
    /\ tx' = [tx EXCEPT !.pc = "collect", !.before = <<>>, !.work = <<>>]
    /\ UNCHANGED <<idxVars, histVars, clock, conn, syncVars, scan, op>>

\* ocflite.SetObject: upsert_object.sql
TxUpsertObject ==
    /\ tx.pc = "object" /\ ~tx.cancelled
    /\ tx' = [tx EXCEPT !.pc = "files", !.work = upsertObject(tx.work, K, tx.obj, clock)]
    /\ UNCHANGED <<idxVars, histVars, clock, conn, syncVars, scan, op>>

\* ocflite.SetObject: setObjectFiles
TxFiles ==
    /\ tx.pc = "files" /\ ~tx.cancelled
    /\ \E order \in Orders(tx.obj.manifest) :
       \E w \in {setObjectFiles(tx.work, K, tx.obj.manifest, order)} :
         /\ \A f \in w.cf : f.id <= MaxRowId
         /\ tx' = [tx EXCEPT !.pc = "versions", !.work = w]
    /\ UNCHANGED <<idxVars, histVars, clock, conn, syncVars, scan, op>>

\* ocflite.SetObject: setObjectVersions
TxVersions ==
    /\ tx.pc = "versions" /\ ~tx.cancelled
    /\ \E pick \in Picks(tx.obj.manifest) :
       \E w \in {setObjectVersions(tx.work, K, tx.obj.versions, pick)} :
         /\ w.ok
         /\ tx' = [tx EXCEPT !.pc = "commit", !.work = w]
    /\ UNCHANGED <<idxVars, histVars, clock, conn, syncVars, scan, op>>

\* DB.setObject: the deferred commit with a nil error
TxCommit ==
    /\ tx.pc = "commit" /\ ~tx.cancelled
    /\ Install(endTransaction(tx.before, tx.work, FALSE))
    /\ roots' = roots \cup {K[1]}
    /\ tx' = [tx EXCEPT !.pc = "collect", !.before = <<>>, !.work = <<>>]
    /\ UNCHANGED <<histVars, clock, conn, syncVars, scan, op>>

\* DB.setObject: a statement fails or is interrupted by the cancelled
\* context; the deferred commit rolls back and DB.SetObject returns the error.
TxFail ==
    /\ tx.pc \in TxPcs
    /\ Install(endTransaction(tx.before, tx.work, TRUE))
    /\ Returned("error", <<>>)
    /\ UNCHANGED <<roots, histVars, clock, conn, syncVars, scan, op>>

\* DB.setObjectFileSizes: the digests with a content file without size, and
\* a content path of each to stat.
Collect ==
    /\ tx.pc = "collect" /\ ~tx.cancelled
    /\ \E missing \in Missing(DB, K) :
         tx' = [tx EXCEPT !.pc = "stat", !.missing = missing]
    /\ UNCHANGED <<idxVars, histVars, clock, conn, syncVars, scan, op>>

\* DB.setObjectFileSizes: listing the content files fails.
CollectFails ==
    /\ tx.pc = "collect"
    /\ Returned("error", <<>>)
    /\ UNCHANGED <<idxVars, histVars, clock, conn, syncVars, scan, op>>

\* batchStatFiles: a worker stats the content path of a digest and its
\* result reaches the results map.
StatOne ==
    /\ tx.pc = "stat" /\ ~tx.failed
    /\ \E d \in DOMAIN tx.missing \ DOMAIN tx.sizes :
         tx' = [tx EXCEPT !.sizes = (d :> StatSize[tx.missing[d]]) @@ tx.sizes]
    /\ UNCHANGED <<idxVars, histVars, clock, conn, syncVars, scan, op>>

\* batchStatFiles: a stat fails, or a goroutine with work left takes the
\* ctx.Done() case of its select; the group's error is set.
StatFails ==
    /\ tx.pc = "stat" /\ ~tx.failed
    /\ DOMAIN tx.missing # DOMAIN tx.sizes
    /\ tx' = [tx EXCEPT !.failed = TRUE]
    /\ UNCHANGED <<idxVars, histVars, clock, conn, syncVars, scan, op>>

\* batchStatFiles returns: nil and the group's error, or the sizes.
BatchReturn ==
    /\ tx.pc = "stat"
    /\ tx.failed \/ DOMAIN tx.sizes = DOMAIN tx.missing
    /\ \E r \in {batchStatFiles(tx.sizes, tx.failed)} :
         IF r.err THEN Returned("error", <<>>)
         ELSE tx' = [tx EXCEPT !.pc = "write", !.sizes = r.sizes]
    /\ UNCHANGED <<idxVars, histVars, clock, conn, syncVars, scan, op>>

\* DB.setObjectFileSizes: the size transaction.  On a cancelled context
\* Pool.Take fails or the statements are interrupted, and nothing is
\* written; otherwise it commits every size or fails and rolls back.
WriteSizes ==
    /\ tx.pc = "write"
    /\ \E failed \in BOOLEAN :
         /\ tx.cancelled => failed
         /\ Install(endTransaction(DB, writeSizes(DB, K, tx.sizes), failed))
         /\ Returned(IF failed THEN "error" ELSE "ok", IF failed THEN <<>> ELSE tx.missing)
    /\ UNCHANGED <<roots, histVars, clock, conn, syncVars, scan, op>>

\* ocflite.SetObjectFileSize called on its own
CallSetObjectFileSize ==
    /\ tx.pc = "idle"
    /\ \E d \in Digests, size \in Sizes :
         /\ Install(SetObjectFileSize(DB, K, d, size))
         /\ op' = [name |-> "SetObjectFileSize", k |-> K, args |-> <<d, size>>,
                   res |-> [err |-> NoError], n |-> 1 - op.n]
    /\ UNCHANGED <<roots, histVars, clock, conn, syncVars, scan, tx>>

NextSizes ==
    \/ Begin \/ Cancel
    \/ TxSetRoot \/ TxSetRootFails \/ TxUpsertObject \/ TxFiles \/ TxVersions
    \/ TxCommit \/ TxFail
    \/ Collect \/ CollectFails \/ StatOne \/ StatFails \/ BatchReturn \/ WriteSizes
    \/ CallSetObjectFileSize

SpecSizes == InitIndex /\ [][NextSizes]_vars

(***************************************************************************)
(* Properties of the index store                                           *)
(***************************************************************************)
Indexed(k) == lastObj[k] # NoObject

\* The state SetObject was given for version v of k.
GivenState(k, v) == PathMap(lastObj[k].versions[v])

VFRows(k, v, p, del) ==
    {f \in vfiles : f.k = k /\ f.vnum = v /\ f.path = p /\ f.is_deleted = del}

\* C1: after any sequence of SetObject calls, GetVersionState(v) is, for every
\* v in 1..head, the path-to-digest state the most recent SetObject gave for v.
C1_StateIsGivenState ==
    \A k \in Keys : Indexed(k) =>
        \A v \in 1..Len(lastObj[k].versions) :
            PathMap(GetVersionState(DB, k, v)) = GivenState(k, v)

\* C2: the stored state_digest of every indexed version is the canonical hash
\* of the state GetVersionState reconstructs for it.
C2_StateDigestIsHashOfState ==
    \A v \in vers : v.state_digest = Hash(GetVersionState(DB, v.k, v.vnum))

\* C3: every indexed object has head >= 1, its version numbers are exactly
\* 1..head, and head is the number of versions of the most recent SetObject
\* (no leftover higher-numbered version).
C3_VersionsArePrefix ==
    \A o \in objs :
        /\ Head_(DB, o.k) >= 1
        /\ {v.vnum : v \in ListVersions(DB, o.k)} = 1..Head_(DB, o.k)
        /\ Cardinality(ListVersions(DB, o.k)) = Head_(DB, o.k)
        /\ Head_(DB, o.k) = Len(lastObj[o.k].versions)

\* C3 witness: an object re-indexed with fewer versions than it had.
C3_Witness ==
    \E o \in objs : prevHead[o.k] > Head_(DB, o.k) /\ Head_(DB, o.k) >= 1

\* C4: the file rows of version V are the delta against V-1: a tombstone for
\* P iff P is in state(V-1) and not in state(V); a live row for P iff P is in
\* state(V) and V = 1, or P is not in state(V-1), or its digest differs.
C4_RowsAreDelta ==
    \A k \in Keys : Indexed(k) =>
        \A v \in 1..Len(lastObj[k].versions), p \in LPaths :
            LET cur == GivenState(k, v)
                prev == IF v > 1 THEN GivenState(k, v - 1) ELSE <<>>
            IN /\ VFRows(k, v, p, TRUE) # {}
                    <=> (v > 1 /\ p \in DOMAIN prev /\ p \notin DOMAIN cur)
               /\ VFRows(k, v, p, FALSE) # {}
                    <=> (p \in DOMAIN cur
                         /\ (v = 1 \/ p \notin DOMAIN prev \/ prev[p] # cur[p]))

(***************************************************************************)
(* Properties of the sync controller                                       *)
(***************************************************************************)
NoRows(k) ==
    /\ \A o \in objs : o.k # k
    /\ \A f \in cfiles : f.k # k
    /\ \A v \in vers : v.k # k
    /\ \A f \in vfiles : f.k # k

\* The brief of an ocfl_objects row, read off the tables.
BriefOfRow(o) ==
    [id |-> o.k[2], storagePath |-> o.storage_path, inventoryDigest |-> o.inventory_digest,
     indexedAt |-> o.indexed_at,
     head |-> IF \E v \in vers : v.k = o.k THEN Max({v.vnum : v \in {w \in vers : w.k = o.k}}) ELSE 0]

C7_SoftFreshIsReadOnly ==
    [][\A p \in Callers : \A o \in objs :
          (/\ call[p].pc = "idle" /\ call'[p].pc # "idle"
           /\ o.k = K /\ clock < o.indexed_at + RefreshInterval)
          => /\ call'[p].pc = "done"
             /\ call'[p].res = {BriefOfRow(o)}
             /\ UNCHANGED <<idxVars, io, reads>>]_vars

\* C7 witness: a call returned the stored brief some time after it was
\* indexed, although the backing store holds another inventory by now.
C7_Witness ==
    \E p \in Callers : \E b \in call[p].res :
        /\ call[p].pc = "done" /\ call[p].res = call[p].brief
        /\ clock > b.indexedAt
        /\ store # NoObject /\ store.inventoryDigest # b.inventoryDigest

\* C8: when the leader finds the sidecar digest equal to the stored
\* inventory_digest, its next step reads no inventory and sets nothing but
\* indexed_at, to the current time: the other columns of the object row and
\* all content-file, version and version-file rows stay as they are; the
\* brief it returns carries the current time, which is at least a refresh
\* interval past the indexed_at the call had looked up if that was still the
\* stored one.
C8_UnchangedSidecarOnlyTouches ==
    [][\A p \in Callers :
          (call[p].pc = "compare" /\ call'[p].pc # "compare" /\ SidecarUnchanged(p))
          => /\ UNCHANGED <<cfiles, vers, vfiles, reads>>
             /\ io'.inventory = io.inventory
             /\ objs' = {IF o.k = K THEN [o EXCEPT !.indexed_at = clock] ELSE o : o \in objs}
             /\ call'[p].res # {}
             /\ \A r \in call'[p].res : r.indexedAt = clock
             /\ \A o \in objs, b \in call[p].brief :
                    (o.k = K /\ o.indexed_at = b.indexedAt)
                        => clock >= b.indexedAt + RefreshInterval]_vars

\* C8 witness: the leader holds a brief with the digest of the brief it
\* looked up and of the sidecar, indexed at least a refresh interval later.
C8_Witness ==
    \E p \in Callers : \E b \in call[p].brief, r \in call[p].res :
        /\ call[p].pc = "publish"
        /\ call[p].side = b.inventoryDigest /\ r.inventoryDigest = b.inventoryDigest
        /\ r.indexedAt >= b.indexedAt + RefreshInterval

\* C9 as stated: a call that ends while the backing store has no object ends
\* with NotFound, and the index then holds no row of the object.
C9_MissingObjectIsNotFound ==
    \A p \in Callers : (call[p].pc = "done" /\ store = NoObject) =>
        call[p].res = {} /\ NoRows(K)

\* C9 amended: a call that ends while the backing store has no object ends
\* with NotFound unless it returned the fresh brief it looked up (soft-fresh
\* path); and whenever a call ends with NotFound the index holds no object,
\* content-file, version or version-file row of the object.
C9_NotFoundUnlessFresh ==
    \A p \in Callers : call[p].pc = "done" =>
        /\ store = NoObject => (call[p].res = {} \/ call[p].res = call[p].brief)
        /\ call[p].res = {} => NoRows(K)

\* C9 witness: a call that had looked up a brief of the object ended with
\* NotFound.
C9_Witness ==
    \E p \in Callers :
        call[p].pc = "done" /\ call[p].res = {} /\ call[p].brief # {}

(***************************************************************************)
(* Properties of the queries                                               *)
(***************************************************************************)
IndexedVersions(k) == {v.vnum : v \in ListVersions(DB, k)}

\* state(v) of the index: the live paths of version v and their digests.
StateAt(k, v) == PathMap(GetVersionState(DB, k, v))

ParentDir(p) == IF Len(Segs[p]) = 1 THEN "." ELSE Segs[p][1]

BaseName(p) == Segs[p][Len(Segs[p])]

EntriesOf(k, v, dir) ==
    LET r == ReadVersionDir(DB, k, v, dir) IN {r.entries[i] : i \in 1..Len(r.entries)}

C13_StatIffLive ==
    \A k \in Keys : \A v \in IndexedVersions(k) : \A P \in Names :
        StatVersionFile(DB, k, v, P) # {} <=> P \in DOMAIN StateAt(k, v)

\* The greatest version at or below V with a non-tombstone row of P.
LastLiveRow(k, V, P) ==
    Max({f.vnum : f \in {g \in vfiles : g.k = k /\ g.path = P /\ g.vnum <= V /\ ~g.is_deleted}})

\* The greatest version at or below V in which P was created, restored or
\* changed digest.
LastChange(k, V, P) ==
    Max({v \in 1..V : \/ v = 1
                      \/ P \notin DOMAIN StateAt(k, v - 1)
                      \/ StateAt(k, v - 1)[P] # StateAt(k, v)[P]})

\* C14: the modifying version of a live file, as StatVersionFile and
\* ReadVersionDir report it, is the greatest version at or below V with a
\* non-tombstone row of the path, and that is the latest version in which
\* the file was created, restored or changed digest.
C14_ModVnumIsLastChange ==
    \A k \in Keys : \A V \in IndexedVersions(k) : \A P \in DOMAIN StateAt(k, V) :
        /\ \A s \in StatVersionFile(DB, k, V, P) :
              s.modVnum = LastLiveRow(k, V, P) /\ s.modVnum = LastChange(k, V, P)
        /\ \A e \in EntriesOf(k, V, ParentDir(P)) :
              (e.name = BaseName(P) /\ ~e.isDir) =>
                  e.modVnum = LastLiveRow(k, V, P) /\ e.modVnum = LastChange(k, V, P)

\* The elements of a directory name given to ReadVersionDir.
DirSegs(dir) == IF dir = "." \/ dir = "" THEN <<>> ELSE Segs[dir]

\* P lies beneath the child called name of the directory dir.
Beneath(P, dir, name) ==
    /\ Len(Segs[P]) > Len(DirSegs(dir)) + 1
    /\ SubSeq(Segs[P], 1, Len(DirSegs(dir)) + 1) = Append(DirSegs(dir), name)

\* C15: for every directory entry of ReadVersionDir(V, dir), the modifying
\* version is the greatest version at or below V of a version-file row,
\* tombstone or not, of a path beneath that directory.
C15_DirModVnumCountsTombstones ==
    \A k \in Keys : \A V \in IndexedVersions(k) : \A dir \in Dirs :
      \A e \in EntriesOf(k, V, dir) :
        LET events == {f.vnum : f \in {g \in vfiles :
                          g.k = k /\ g.vnum <= V /\ Beneath(g.path, dir, e.name)}}
        IN (e.isDir /\ events # {}) => e.modVnum = Max(events)

\* The live paths of state(v) that begin with dir + "/" (every live path
\* when dir is "." or "").
LiveBeneath(k, v, dir) ==
    {P \in DOMAIN StateAt(k, v) :
        /\ Len(Segs[P]) > Len(DirSegs(dir))
        /\ SubSeq(Segs[P], 1, Len(DirSegs(dir))) = DirSegs(dir)}

\* The name of the immediate child of dir that P lies at or beneath.
ChildName(P, dir) == Segs[P][Len(DirSegs(dir)) + 1]

\* C16: ReadVersionDir(v, dir) has exactly one entry for each immediate
\* child name of dir with a live path of state(v) at or beneath it and no
\* other entry; an entry is a directory iff its live paths lie more than one
\* segment below dir, and its digest is empty iff it is a directory.
C16_OneEntryPerLiveChild ==
    \A k \in Keys : \A v \in IndexedVersions(k) : \A dir \in Dirs :
        LET entries == ReadVersionDir(DB, k, v, dir).entries
            live == LiveBeneath(k, v, dir)
        IN /\ {entries[i].name : i \in 1..Len(entries)} = {ChildName(P, dir) : P \in live}
           /\ \A i, j \in 1..Len(entries) : entries[i].name = entries[j].name => i = j
           /\ \A i \in 1..Len(entries) :
                /\ entries[i].isDir <=>
                     \E P \in live : /\ ChildName(P, dir) = entries[i].name
                                     /\ Len(Segs[P]) > Len(DirSegs(dir)) + 1
                /\ entries[i].digest = "" <=> entries[i].isDir

\* C17: ReadVersionDir of the root of a version with an empty state is an
\* empty list without error; ReadVersionDir of any other directory is
\* NotFound exactly when no live path of the version lies beneath it.
C17_NotFoundIffNothingBeneath ==
    \A k \in Keys : \A v \in IndexedVersions(k) : \A dir \in Dirs :
        LET r == ReadVersionDir(DB, k, v, dir)
        IN IF dir = "." \/ dir = ""
           THEN DOMAIN StateAt(k, v) = {} => ~r.notFound /\ r.entries = <<>>
           ELSE r.notFound <=> LiveBeneath(k, v, dir) = {}

\* The rows of the live files of state(v) at or beneath the child called
\* name of the directory dir.
LiveFilesOf(k, v, dir, name) ==
    {r \in ListVersionFilesRows(DB, k, v, ".") :
        /\ ~r.is_deleted
        /\ Len(Segs[r.path]) > Len(DirSegs(dir))
        /\ SubSeq(Segs[r.path], 1, Len(DirSegs(dir)) + 1) = Append(DirSegs(dir), name)}

\* The sum of the sizes that are known (not negative) in a set of rows.
RECURSIVE SumKnown(_)
SumKnown(rows) ==
    IF rows = {} THEN 0
    ELSE LET r == CHOOSE x \in rows : TRUE
         IN (IF r.size < 0 THEN 0 ELSE r.size) + SumKnown(rows \ {r})

\* C18: for every entry of ReadVersionDir(v, dir), size is the sum of the
\* known sizes of the live files at or beneath it and has-size holds iff
\* every one of those files has a known size; deleted files add nothing and
\* an unknown size counts as 0 with has-size false.
C18_DirSizeIsSumOfLive ==
    \A k \in Keys : \A v \in IndexedVersions(k) : \A dir \in Dirs :
      \A e \in EntriesOf(k, v, dir) :
        LET files == LiveFilesOf(k, v, dir, e.name)
        IN /\ e.size = SumKnown(files)
           /\ e.hasSize <=> \A r \in files : r.size >= 0

\* The position of a path in the ascending order of paths.
PathPos(p) == CHOOSE i \in 1..Len(PathOrder) : PathOrder[i] = p

\* The state a comparison starts from: empty for version 0.
FromState(k, v) == IF v = 0 THEN <<>> ELSE StateAt(k, v)

\* The paths GetVersionChanges(a, b) reports with the given type.
ChangedPaths(k, a, b, type) ==
    LET c == GetVersionChanges(DB, k, a, b).changes
    IN {c[i].path : i \in {j \in 1..Len(c) : c[j].modType = type}}

\* C19: for indexed versions fromV (or 0) and toV # fromV, GetVersionChanges
\* succeeds and its changes are in ascending order of path, each path at
\* most once, and are exactly: added for the paths of state(toV) absent from
\* state(fromV), modified for the paths in both with different digests,
\* deleted for the paths of state(fromV) absent from state(toV).
C19_ChangesAreExactDiff ==
    \A k \in Keys : \A toV \in IndexedVersions(k) :
      \A fromV \in (IndexedVersions(k) \cup {0}) \ {toV} :
        LET r == GetVersionChanges(DB, k, fromV, toV)
            from == FromState(k, fromV)
            to == StateAt(k, toV)
        IN /\ ~r.err
           /\ \A i, j \in 1..Len(r.changes) :
                i < j => PathPos(r.changes[i].path) < PathPos(r.changes[j].path)
           /\ ChangedPaths(k, fromV, toV, "added") = DOMAIN to \ DOMAIN from
           /\ ChangedPaths(k, fromV, toV, "modified") =
                {p \in DOMAIN to \cap DOMAIN from : from[p] # to[p]}
           /\ ChangedPaths(k, fromV, toV, "deleted") = DOMAIN from \ DOMAIN to
           /\ \A i \in 1..Len(r.changes) :
                r.changes[i].modType \in {"added", "modified", "deleted"}

\* C19 witness: a change of digest between versions 1 and 2, and a
\* comparison from version 0 that is not adjacent.
C19_Witness ==
    \E k \in Keys :
        /\ {1, 2} \subseteq IndexedVersions(k)
        /\ ChangedPaths(k, 1, 2, "modified") # {}
        /\ ChangedPaths(k, 0, 2, "added") # {}

\* C20: for any two indexed versions a and b, the paths added from a to b
\* are the paths deleted from b to a and the other way round, and both
\* directions report the same modified paths.
C20_ReverseIsSymmetric ==
    \A k \in Keys : \A a, b \in IndexedVersions(k) :
        /\ ChangedPaths(k, a, b, "added") = ChangedPaths(k, b, a, "deleted")
        /\ ChangedPaths(k, a, b, "deleted") = ChangedPaths(k, b, a, "added")
        /\ ChangedPaths(k, a, b, "modified") = ChangedPaths(k, b, a, "modified")

\* C20 witness: a rename between versions 1 and 2, one path added and one
\* deleted with the same digest.
C20_Witness ==
    \E k \in Keys :
        /\ {1, 2} \subseteq IndexedVersions(k)
        /\ \E p \in ChangedPaths(k, 1, 2, "added") :
           \E q \in ChangedPaths(k, 1, 2, "deleted") :
              StateAt(k, 2)[p] = StateAt(k, 1)[q]

(***************************************************************************)
(* Properties of the calls                                                 *)
(***************************************************************************)
\* C21: GetVersionChanges with fromV = toV, an indexed version, returns no
\* error and an empty list of changes with FromVnum and ToVnum both equal
\* to the argument.
C21_SameVersionIsEmpty ==
    [][(op' # op /\ op'.name = "GetVersionChanges" /\ op'.args[1] = op'.args[2]
          /\ op'.args[1] \in IndexedVersions(op'.k))
       => /\ op'.res.err = NoError
          /\ ~op'.res.val.err /\ ~op'.res.val.isNil
          /\ op'.res.val.changes = <<>>
          /\ op'.res.val.fromVnum = op'.args[1]
          /\ op'.res.val.toVnum = op'.args[2]]_vars

\* C21 witness: the call was made for version 2 of an object whose versions
\* 1 and 2 differ.
C21_Witness ==
    /\ op.name = "GetVersionChanges" /\ op.args = <<2, 2>> /\ op.res.err = NoError
    /\ 2 \in IndexedVersions(op.k)
    /\ StateAt(op.k, 1) # StateAt(op.k, 2)

\* The arguments GetVersionChanges rejects.
BadChangeArgs(k, fromVN, toVN) ==
    \/ fromVN < 0
    \/ toVN < 1
    \/ toVN \notin IndexedVersions(k)
    \/ fromVN > 0 /\ fromVN \notin IndexedVersions(k)

\* C22: GetVersionChanges returns an error and no list of changes, and
\* leaves the index as it is, whenever fromV < 0, toV < 1, toV is not an
\* indexed version, or fromV > 0 is not an indexed version.
C22_BadArgsAreErrors ==
    [][(op' # op /\ op'.name = "GetVersionChanges"
          /\ BadChangeArgs(op'.k, op'.args[1], op'.args[2]))
       => /\ op'.res.err # NoError
          /\ op'.res.val.err /\ op'.res.val.isNil
          /\ UNCHANGED idxVars]_vars

\* C22 witness: the call failed for a from version above the head of an
\* indexed object.
C22_Witness ==
    /\ op.name = "GetVersionChanges" /\ op.args = <<3, 1>> /\ op.res.err # NoError
    /\ IndexedVersions(op.k) = {1, 2}

\* C23: UnsetObject(root, id) removes the object row and the object's
\* content-file, version and version-file rows, leaves the rows of every
\* other object (and the roots) as they are, and returns no error, also
\* when the object or its root is not in the index.
C23_UnsetObjectRemovesOnlyItsRows ==
    [][(op' # op /\ op'.name = "UnsetObject")
       => /\ op'.res.err = NoError
          /\ objs' = {o \in objs : o.k # op'.k}
          /\ cfiles' = {f \in cfiles : f.k # op'.k}
          /\ vers' = {v \in vers : v.k # op'.k}
          /\ vfiles' = {f \in vfiles : f.k # op'.k}
          /\ roots' = roots]_vars

\* C23 witness: an indexed object was removed while an object with the same
\* id in another root and an object of the same root, both with the same
\* content, stay indexed.
C23_Witness ==
    /\ op.name = "UnsetObject" /\ op.k = <<"r1", "o1">> /\ op.res.found
    /\ \E f \in cfiles : f.k = <<"r2", "o1">> /\ f.digest = "d1"
    /\ \E f \in cfiles : f.k = <<"r1", "o2">> /\ f.digest = "d1"
    /\ \E f \in vfiles : f.k = <<"r2", "o1">>

C25_SuccessMeansSizesKnown ==
    [][(tx.pc # "idle" /\ tx'.pc = "idle" /\ tx'.res = "ok") =>
         /\ \A f \in cfiles' : f.k = K => f.size >= 0
         /\ \A d \in DOMAIN tx.missing : \A f \in cfiles' :
              (f.k = K /\ f.digest = d) => f.size = StatSize[tx.missing[d]]]_vars

\* DB.SetObject has succeeded for an object with two content paths of one
\* digest that lacked a size; both have the size of the statted path.
C25_Witness ==
    /\ tx.pc = "idle" /\ tx.res = "ok"
    /\ \E d \in DOMAIN tx.missing : \E f, g \in cfiles :
         /\ f.k = K /\ g.k = K /\ f.path # g.path
         /\ f.digest = d /\ g.digest = d
         /\ f.size = StatSize[tx.missing[d]] /\ g.size = f.size

\* C26 as stated: when a stat has failed or the context has been cancelled
\* during the stat pass, batchStatFiles returns an error, the size
\* transaction is not started and the sizes are unchanged.
C26_AbortReturnsError ==
    [][(tx.pc = "stat" /\ tx'.pc # "stat" /\ (tx.failed \/ tx.cancelled)) =>
         (tx'.pc = "idle" /\ tx'.res = "error" /\ cfiles' = cfiles)]_vars

\* C26: when the group of batchStatFiles has an error (a stat failed, or a
\* goroutine took the cancellation), batchStatFiles returns the error and no
\* sizes, the size transaction is not started and the sizes are unchanged;
\* when the context was cancelled during the pass and no goroutine took the
\* cancellation, the size transaction fails; in both cases DB.SetObject
\* returns an error and no size is written.
C26_AbortWritesNothing ==
    [][/\ (tx.pc = "stat" /\ tx'.pc # "stat" /\ tx.failed) =>
            (tx'.pc = "idle" /\ tx'.res = "error" /\ cfiles' = cfiles)
       /\ (tx.pc \in {"stat", "write"} /\ tx.cancelled) =>
            (cfiles' = cfiles /\ tx'.res # "ok")]_vars

\* The context was cancelled during the pass, every stat was delivered, and
\* batchStatFiles has returned sizes.
C26_Witness ==
    tx.pc = "write" /\ tx.cancelled /\ DOMAIN tx.sizes # {}

\* C28: while the transaction of DB.setObject runs, the index other
\* connections read is the one from before the call; the transaction ends
\* either with the index unchanged or, on commit, with the whole result of
\* ocflite.SetObject; and when DB.setObject returns an error the index is
\* the one from before the call.
C28_SetObjectIsAtomic ==
    /\ [](tx.pc \in TxPcs => DB = tx.before)
    /\ [][(tx.pc \in TxPcs /\ tx'.pc \notin TxPcs) =>
            IF tx'.pc = "collect"
            THEN \/ UNCHANGED idxVars
                 \/ /\ tx.pc = "commit"
                    /\ \E order \in Orders(tx.obj.manifest), pick \in Picks(tx.obj.manifest) :
                       \E res \in {ocfliteSetObject(tx.before, K, tx.obj, clock, order, pick)} :
                         /\ res.ok
                         /\ objs' = res.objs /\ cfiles' = res.cf
                         /\ vers' = res.vs /\ vfiles' = res.vf
            ELSE tx'.res = "error" /\ UNCHANGED <<objs, cfiles, vers, vfiles>>]_vars

\* The transaction has written the new object and has not committed, while
\* the index holds the object as it was indexed before.
C28_Witness ==
    /\ tx.pc = "commit" /\ objs # {}
    /\ tx.work.cf # cfiles /\ tx.work.vs # vers

NotFoundErrors == {ErrNotFound, AccessErrNotFound}

\* C29: a call of DB.GetObjectVersion, DB.StatObjectVersionFile or
\* GetVersionChanges on an indexed object with a version number above the
\* head returns an error that is ErrNotFound for errors.Is.
C29_AboveHeadIsNotFound ==
    [][(/\ op' # op
        /\ Head_(DB, op'.k) > 0
        /\ \/ /\ op'.name \in {"GetObjectVersion", "StatObjectVersionFile"}
              /\ op'.args[1] > Head_(DB, op'.k)
           \/ /\ op'.name = "GetVersionChanges"
              /\ op'.args[1] >= 0 /\ op'.args[2] >= 1
              /\ op'.args[1] > Head_(DB, op'.k) \/ op'.args[2] > Head_(DB, op'.k))
         => op'.res.err \in NotFoundErrors]_vars

\* C30: a call of DB.GetObjectVersion, DB.ReadObjectVersionDir or
\* DB.StatObjectVersionFile on an indexed object with a version number below
\* 1 returns what the same call returns with the number of the head.
C30_BelowOneIsHead ==
    [][(/\ op' # op
        /\ Head_(DB, op'.k) > 0
        /\ op'.name \in {"GetObjectVersion", "ReadObjectVersionDir", "StatObjectVersionFile"}
        /\ op'.args[1] < 1)
         => op'.res =
              CASE op'.name = "GetObjectVersion" ->
                     GetObjectVersion(DB, op'.k, Head_(DB, op'.k))
                [] op'.name = "ReadObjectVersionDir" ->
                     ReadObjectVersionDir(DB, op'.k, Head_(DB, op'.k), op'.args[2])
                [] OTHER ->
                     StatObjectVersionFile(DB, op'.k, Head_(DB, op'.k), op'.args[2])]_vars

(***************************************************************************)
(* Listing the objects of a root: three objects of one root and an object  *)
(* of a second root, indexed with or without a content file.               *)
(***************************************************************************)
ListRoots == {"r1", "r2"}
ListKeys == {<<"r1", "o1">>, <<"r1", "o2">>, <<"r1", "o3">>, <<"r2", "o1">>}
MaxPageSize == 4   \* largest page size asked for; one more than the objects of a root

\* The object ids in ascending byte order (ORDER BY o.object_id).
IDOrder == <<"o1", "o2", "o3">>

\* An inventory whose one version is empty, and one with the file a.
EmptyInv == [versions |-> <<DigestMap(<<>>)>>, manifest |-> <<>>,
             inventoryDigest |-> "i0", storagePath |-> "sp"]

ListInventoriesOf(k) == {[inv EXCEPT !.storagePath = k[2]] : inv \in {EmptyInv, InvA}}

\* The object ids of a root in the order of list_objects.sql.
ObjectIDs(db, root) ==
    SelectSeq(IDOrder, LAMBDA id : \E o \in db.objs : o.k = <<root, id>>)

\* list_objects.sql without the condition on the root name.
ListObjectsAnyRoot(db, root, pageSize, offset) ==
    LET ks == SelectSeq(<<<<"r1", "o1">>, <<"r2", "o1">>, <<"r1", "o2">>, <<"r1", "o3">>>>,
                        LAMBDA k : \E o \in db.objs : o.k = k)
        n == IF Len(ks) - offset < pageSize THEN Len(ks) - offset ELSE pageSize
    IN [i \in 1..n |-> CHOOSE b \in GetObjectBrief(db, ks[offset + i]) : TRUE]

\* ListObjects, list_objects.sql: the briefs of the root's objects ordered by
\* object id, LIMIT pageSize OFFSET offset.
ListObjects(db, root, pageSize, offset) ==
    LET ids == ObjectIDs(db, root)
        n == IF Len(ids) - offset < pageSize THEN Len(ids) - offset ELSE pageSize
    IN [i \in 1..n |-> CHOOSE b \in GetObjectBrief(db, <<root, ids[offset + i]>>) : TRUE]

\* DB.SetObject of one of the listed objects
SetObjectListed(k) ==
    \E obj \in ListInventoriesOf(k) :
    \E order \in Orders(obj.manifest), pick \in Picks(obj.manifest) :
    \E db \in {ocfliteSetObject(DB, k, obj, clock, order, pick)} :
       /\ db.ok
       /\ \A f \in db.cf : f.id <= MaxRowId
       /\ Install(db)
       /\ roots' = roots \cup {k[1]}
       /\ op' = [name |-> "SetObject", k |-> k, args |-> <<obj.inventoryDigest>>,
                 res |-> [err |-> NoError], n |-> 1 - op.n]
       /\ UNCHANGED <<histVars, clock, conn, syncVars, scan, tx>>

\* DB.ListObjects
CallListObjects ==
    \E root \in ListRoots, pageSize \in 1..MaxPageSize :
    \E i \in {j \in 0..Len(IDOrder) : j * pageSize <= Len(IDOrder)} :
        Called("ListObjects", <<root, "">>, <<pageSize, i * pageSize>>,
               [err |-> NoError, val |-> ListObjects(DB, root, pageSize, i * pageSize)])

NextList ==
    \/ \E k \in ListKeys : SetObjectListed(k) \/ UnsetObjectOf(k)
    \/ CallListObjects

SpecList == InitIndex /\ [][NextList]_vars

\* The offsets of the successive pages of n objects.
PageOffsets(n, pageSize) == {i * pageSize : i \in {j \in 0..n : j * pageSize < n}}

\* C31: for every root and every page size from 1 on, the pages at the
\* offsets 0, pageSize, 2*pageSize, ... hold every object of the root once
\* and no other object; every page has pageSize objects, the last one the
\* remainder.
C31_PagesCoverRootOnce ==
    \A root \in ListRoots, pageSize \in 1..MaxPageSize :
      LET ids == {o.k[2] : o \in {x \in objs : x.k[1] = root}}
          n == Cardinality(ids)
          page(off) == ListObjects(DB, root, pageSize, off)
          offs == PageOffsets(n, pageSize)
      IN /\ \A off \in offs :
              /\ Len(page(off)) = (IF off + pageSize > n THEN n - off ELSE pageSize)
              /\ \A i \in 1..Len(page(off)) : page(off)[i].id \in ids
              /\ \A i, j \in 1..Len(page(off)) : page(off)[i].id = page(off)[j].id => i = j
         /\ \A id \in ids : \E off \in offs : \E i \in 1..Len(page(off)) : page(off)[i].id = id
         /\ \A o1, o2 \in offs : \A i \in 1..Len(page(o1)), j \in 1..Len(page(o2)) :
              page(o1)[i].id = page(o2)[j].id => o1 = o2

\* The second page of size 2 of a root with three objects was listed and holds
\* the third object, while the other root has an object with the id of the first.
C31_Witness ==
    /\ op.name = "ListObjects" /\ op.k[1] = "r1" /\ op.args = <<2, 2>>
    /\ op.res.val = ListObjects(DB, "r1", 2, 2)
    /\ Len(op.res.val) = 1 /\ op.res.val[1].id = "o3"
    /\ \E o \in objs : o.k = <<"r2", "o1">>

(***************************************************************************)
(* The brief of an object with all its columns: padding, alg and the        *)
(* created_at of the versions are written by the upserts of SetObject next *)
(* to the columns modelled above.  The storage path of an object can        *)
(* change, and is unique in a root.                                         *)
(***************************************************************************)
BriefRoots == {k[1] : k \in ManyKeys}
BriefPaths == {"p1", "p2"}

\* The objects: one version, or two versions of which the second was
\* created before the first; each with its padding and digest algorithm.
BriefObjects ==
    {[versions |-> c.inv.versions, manifest |-> c.inv.manifest,
      inventoryDigest |-> c.inv.inventoryDigest, storagePath |-> p,
      padding |-> c.padding, alg |-> c.alg, created |-> c.created]
        : p \in BriefPaths,
          c \in {[inv |-> InvA, padding |-> 3, alg |-> "sha256", created |-> <<2>>],
                 [inv |-> InvB, padding |-> 0, alg |-> "sha512", created |-> <<2, 1>>]}}

Min(S) == CHOOSE x \in S : \A y \in S : x <= y

\* upsert_object.sql and upsert_object_version.sql: the columns padding and
\* alg of the object's row and created_at of each version given.
setObjectColumns(db, k, obj) ==
    [db EXCEPT
       !.objs = {IF o.k = k
                 THEN [k |-> o.k, storage_path |-> o.storage_path,
                       inventory_digest |-> o.inventory_digest, indexed_at |-> o.indexed_at,
                       padding |-> obj.padding, alg |-> obj.alg]
                 ELSE o : o \in db.objs},
       !.vs = {IF v.k = k
               THEN [k |-> v.k, vnum |-> v.vnum, state_digest |-> v.state_digest,
                     created_at |-> obj.created[v.vnum]]
               ELSE v : v \in db.vs}]

\* ocfl_objects UNIQUE(root_id, storage_path): the upsert of the object's row
\* fails when another object of the root has the storage path.
StoragePathTaken(db, k, storagePath) ==
    \E o \in db.objs : o.k[1] = k[1] /\ o.k # k /\ o.storage_path = storagePath

\* The columns head, created_at and updated_at of get_object.sql and
\* get_object_by_path.sql (COALESCE of MAX and MIN over the versions).
BriefOf(db, o, id, storagePath) ==
    LET created == {v.created_at : v \in ListVersions(db, o.k)}
    IN [id |-> id, storagePath |-> storagePath, padding |-> o.padding, alg |-> o.alg,
        inventoryDigest |-> o.inventory_digest, indexedAt |-> o.indexed_at,
        head |-> Head_(db, o.k),
        createdAt |-> IF created = {} THEN 0 ELSE Min(created),
        updatedAt |-> IF created = {} THEN 0 ELSE Max(created)]

\* GetObjectBrief with every field of ObjectBrief; the empty set is ErrNotFound.
ObjectBrief(db, k) ==
    {BriefOf(db, o, k[2], o.storage_path) : o \in {x \in db.objs : x.k = k}}

\* get_object_by_path.sql without the condition on the storage path.
get_object_by_path_any(db, root, storagePath) == {o \in db.objs : o.k[1] = root}

\* get_object_by_path.sql: the object rows of the root with the storage path
get_object_by_path(db, root, storagePath) ==
    {o \in db.objs : o.k[1] = root /\ o.storage_path = storagePath}

\* GetObjectBriefByPath with every field of ObjectBrief
ObjectBriefByPath(db, root, storagePath) ==
    {BriefOf(db, o, o.k[2], storagePath) : o \in get_object_by_path(db, root, storagePath)}

\* The error of GetObjectBrief and GetObjectBriefByPath
ObjectBriefErr(brief) == IF brief = {} THEN ErrorfW(ErrNotFound) ELSE NoError

\* DB.SetObject with all columns
SetObjectBrief(k) ==
    \E obj \in BriefObjects :
    \E order \in Orders(obj.manifest), pick \in Picks(obj.manifest) :
    \E db \in {setObjectColumns(ocfliteSetObject(DB, k, obj, clock, order, pick), k, obj)} :
       /\ \A f \in db.cf : f.id <= MaxRowId
       /\ IF db.ok /\ ~StoragePathTaken(DB, k, obj.storagePath)
          THEN /\ Install(db)
               /\ roots' = roots \cup {k[1]}
               /\ op' = [name |-> "SetObject", k |-> k, args |-> <<obj>>,
                         res |-> [err |-> NoError], n |-> 1 - op.n]
          ELSE /\ UNCHANGED <<roots, objs, cfiles, vers, vfiles>>
               /\ op' = [name |-> "SetObject", k |-> k, args |-> <<obj>>,
                         res |-> [err |-> ErrOther], n |-> 1 - op.n]
       /\ UNCHANGED <<histVars, clock, conn, syncVars, scan, tx>>

\* GetObjectBrief
CallGetObjectBrief(k) ==
    Called("GetObjectBrief", k, <<>>,
           [err |-> ObjectBriefErr(ObjectBrief(DB, k)), val |-> ObjectBrief(DB, k)])

\* GetObjectBriefByPath
CallGetObjectBriefByPath ==
    \E root \in BriefRoots, p \in BriefPaths :
        Called("GetObjectBriefByPath", <<root, "">>, <<p>>,
               [err |-> ObjectBriefErr(ObjectBriefByPath(DB, root, p)),
                val |-> ObjectBriefByPath(DB, root, p)])

NextBrief ==
    \/ \E k \in ManyKeys : SetObjectBrief(k) \/ UnsetObjectOf(k) \/ CallGetObjectBrief(k)
    \/ CallGetObjectBriefByPath

SpecBrief == InitIndex /\ [][NextBrief]_vars

\* The brief a SetObject with the object obj leaves.
BriefGiven(k, obj, now) ==
    [id |-> k[2], storagePath |-> obj.storagePath, padding |-> obj.padding, alg |-> obj.alg,
     inventoryDigest |-> obj.inventoryDigest, indexedAt |-> now,
     head |-> Len(obj.versions),
     createdAt |-> Min({obj.created[i] : i \in 1..Len(obj.versions)}),
     updatedAt |-> Max({obj.created[i] : i \in 1..Len(obj.versions)})]

\* C32: an indexed object has one brief, the one GetObjectBriefByPath returns
\* for its storage path; an id and a storage path without object row yield
\* ErrNotFound; a successful SetObject leaves the brief with the id, storage
\* path, padding, algorithm and inventory digest it was given, head the
\* number of versions, CreatedAt the earliest and UpdatedAt the latest
\* creation time; and no other call changes the brief of an object.
C32_BriefIsLastSetObject ==
    /\ [](/\ \A k \in ManyKeys :
               IF \E o \in objs : o.k = k
               THEN /\ Cardinality(ObjectBrief(DB, k)) = 1
                    /\ \A b \in ObjectBrief(DB, k) :
                         ObjectBriefByPath(DB, k[1], b.storagePath) = {b}
               ELSE ObjectBriefErr(ObjectBrief(DB, k)) \in NotFoundErrors
          /\ \A root \in BriefRoots, p \in BriefPaths :
               (~\E o \in objs : o.k[1] = root /\ o.storage_path = p)
                  => ObjectBriefErr(ObjectBriefByPath(DB, root, p)) \in NotFoundErrors)
    /\ [][LET after == [objs |-> objs', cf |-> cfiles', vs |-> vers', vf |-> vfiles', ok |-> TRUE]
              set == op' # op /\ op'.name = "SetObject" /\ op'.res.err = NoError
          IN /\ set => ObjectBrief(after, op'.k) = {BriefGiven(op'.k, op'.args[1], clock)}
             /\ \A k \in ManyKeys :
                  (~set \/ k # op'.k) =>
                     \/ ObjectBrief(after, k) = ObjectBrief(DB, k)
                     \/ op'.name = "UnsetObject" /\ op'.k = k /\ ObjectBrief(after, k) = {}]_vars

\* GetObjectBriefByPath has returned the brief of an object that was
\* re-indexed under another storage path with fewer versions, while the
\* other root holds an object with the same id.
C32_Witness ==
    /\ op.name = "GetObjectBriefByPath" /\ op.k[1] = "r1" /\ op.args = <<"p2">>
    /\ op.res.val = ObjectBrief(DB, <<"r1", "o1">>)
    /\ \E b \in op.res.val : b.head = 1 /\ b.padding = 3 /\ b.createdAt = 2
    /\ ObjectBriefByPath(DB, "r1", "p1") = ObjectBrief(DB, <<"r1", "o2">>)
    /\ \E b \in ObjectBrief(DB, <<"r2", "o1">>) : b.storagePath = "p2" /\ b.head = 2 /\ b.createdAt = 1

(***************************************************************************)
(* The handlers of the web UI for object files and history.  A request is  *)
(* held in op while it is handled: args is the request, res the position   *)
(* of the handler, the state of the http.ResponseWriter and the error that *)
(* ended the handling.  The access service is a collaborator: each of its  *)
(* calls returns no error, an error that is access.ErrNotFound, or another *)
(* error.                                                                  *)
(***************************************************************************)
StatusOK == 200
StatusBadRequest == 400
StatusNotFound == 404
StatusInternalServerError == 500

\* Version references of a request, and what ocfl.ParseVNum makes of them
\* (0: not a version number).
VerRefs == {"head", "v1", "v02", "vX"}
ParseVNum == [v \in VerRefs |-> CASE v = "v1" -> 1 [] v = "v02" -> 2 [] OTHER -> 0]

\* Request paths, path.Clean of them, and fs.ValidPath of the cleaned path.
ReqPaths == {"", "a", "d/", "../a", "README.md"}
Clean == [p \in ReqPaths |-> CASE p = "" -> "." [] p = "d/" -> "d" [] OTHER -> p]
ValidPath == [p \in ReqPaths |-> p # "../a"]
HasSuffixSlash == [p \in ReqPaths |-> p = "d/"]
isReadmeFile == [p \in ReqPaths |-> p = "README.md"]

Methods == {"GET", "HEAD"}
ServiceErrors == {NoError, AccessErrNotFound, ErrOther}
BadRequest == "bad request"

Requests ==
    [handler : {"files"}, verRef : VerRefs, path : ReqPaths, render : BOOLEAN, method : Methods]
    \cup [handler : {"history"}, verRef : {""}, path : {""}, render : {FALSE}, method : {"GET"}]
    \cup [handler : {"changes"}, verRef : VerRefs, path : {""}, render : {FALSE}, method : {"GET"}]

\* getParams of HandleGetObjectFiles: the error means "bad request"
getParams(req) ==
    LET isDir == HasSuffixSlash[req.path] \/ Clean[req.path] = "."
        render == req.render /\ req.method # "HEAD"
    IN [err |-> \/ req.verRef # "head" /\ ParseVNum[req.verRef] = 0
                \/ ~ValidPath[req.path]
                \/ render /\ (isDir \/ ~isReadmeFile[req.path]),
        ver |-> IF req.verRef = "head" THEN 0 ELSE ParseVNum[req.verRef],
        isDir |-> isDir, renderReadme |-> render]

\* http.ResponseWriter: WriteHeader sets the status unless it is already sent
WriteHeader(res, status) == IF res.status = 0 THEN [res EXCEPT !.status = status] ELSE res

\* http.ResponseWriter: Write sends the header with 200 unless already sent
Write(res) == [WriteHeader(res, StatusOK) EXCEPT !.written = TRUE]

\* http.Error
HttpError(res, status) == [WriteHeader(res, status) EXCEPT !.pc = "done"]

\* logErr that answers every error with 500.
logErrAll500(res, err) ==
    [HttpError(res, StatusInternalServerError) EXCEPT !.err = err, !.logged = TRUE]

\* logErr: 404 for access.ErrNotFound, else the error is logged and 500
logErr(res, err) ==
    IF err = AccessErrNotFound
    THEN [HttpError(res, StatusNotFound) EXCEPT !.err = err]
    ELSE [HttpError(res, StatusInternalServerError) EXCEPT !.err = err, !.logged = TRUE]

\* The handler returns having written the page or the file; net/http sends
\* the header with 200 if it was not sent.
Finish(res) == [WriteHeader(res, StatusOK) EXCEPT !.pc = "done"]

NewResponse == [pc |-> "start", status |-> 0, written |-> FALSE, logged |-> FALSE,
                err |-> NoError, ver |-> 0, head |-> 0]

Handling(pc) == op.name = "request" /\ op.res.pc = pc

Step(res) ==
    /\ op' = [op EXCEPT !.res = res]
    /\ UNCHANGED <<idxVars, histVars, clock, conn, syncVars, scan, tx>>

\* A service call that ends the handling with logErr or goes on to the
\* position next.
ServiceCall(pc, next) ==
    /\ Handling(pc)
    /\ \E err \in ServiceErrors :
         Step(IF err # NoError THEN logErr(op.res, err) ELSE [op.res EXCEPT !.pc = next])

\* A request arrives.
Receive ==
    /\ op.name = ""
    /\ \E req \in Requests :
         op' = [name |-> "request", k |-> K, args |-> req, res |-> NewResponse, n |-> 0]
    /\ UNCHANGED <<idxVars, histVars, clock, conn, syncVars, scan, tx>>

\* HandleGetObjectFiles: getParams, 400 on error, else the handler for a
\* directory, a readme to render, or a file
FilesParams ==
    /\ Handling("start") /\ op.args.handler = "files"
    /\ LET p == getParams(op.args)
       IN Step(IF p.err
               THEN [HttpError(op.res, StatusBadRequest) EXCEPT !.err = BadRequest]
               ELSE [op.res EXCEPT !.ver = p.ver,
                                   !.pc = IF p.isDir THEN "dir.sync"
                                          ELSE IF p.renderReadme THEN "readme.open"
                                          ELSE "file.open"])

\* handleDir: svc.SyncObject; a version below 1 becomes the head
DirSync ==
    /\ Handling("dir.sync")
    /\ \E err \in ServiceErrors, head \in 1..MaxHead :
         Step(IF err # NoError THEN logErr(op.res, err)
              ELSE [op.res EXCEPT !.pc = "dir.read", !.head = head,
                                  !.ver = IF op.res.ver < 1 THEN head ELSE op.res.ver])

\* handleDir: svc.ReadVersionDir, then the page is rendered
DirRead ==
    /\ Handling("dir.read")
    /\ \E err \in ServiceErrors :
         Step(IF err # NoError THEN logErr(op.res, err)
              ELSE IF op.args.method = "HEAD" THEN Finish(op.res)
              ELSE Finish(Write(op.res)))

\* handleFile, handleReadme: svc.OpenVersionFile
FileOpen == ServiceCall("file.open", "file.stat")
ReadmeOpen == ServiceCall("readme.open", "readme.stat")

\* handleFile: f.Stat; a HEAD request ends here
FileStat ==
    /\ Handling("file.stat")
    /\ \E err \in ServiceErrors \ {AccessErrNotFound} :
         Step(IF err # NoError THEN logErr(op.res, err)
              ELSE IF op.args.method = "HEAD" THEN Finish(op.res)
              ELSE [op.res EXCEPT !.pc = "file.copy"])

\* handleFile: io.Copy(w, f) copies the file, or fails before or after the
\* first bytes were written to the response
FileCopy ==
    /\ Handling("file.copy")
    /\ \E outcome \in {"copied", "failed at once", "failed after bytes"} :
         Step(CASE outcome = "copied" -> Finish(Write(op.res))
                [] outcome = "failed at once" -> logErr(op.res, ErrOther)
                [] OTHER -> logErr(Write(op.res), ErrOther))

\* handleReadme: f.Stat; a file above maxMarkdownSize is not rendered
ReadmeStat ==
    /\ Handling("readme.stat")
    /\ \E err \in ServiceErrors \ {AccessErrNotFound}, tooLarge \in BOOLEAN :
         Step(IF err # NoError THEN logErr(op.res, err)
              ELSE IF tooLarge THEN Finish(op.res)
              ELSE [op.res EXCEPT !.pc = "readme.read"])

\* handleReadme: io.ReadAll(f), then the rendered HTML is copied to w
ReadmeRead ==
    /\ Handling("readme.read")
    /\ \E outcome \in {"copied", "read failed", "write failed at once", "write failed after bytes"} :
         Step(CASE outcome = "copied" -> Finish(Write(op.res))
                [] outcome = "write failed after bytes" -> logErr(Write(op.res), ErrOther)
                [] OTHER -> logErr(op.res, ErrOther))

\* HandleGetObjectHistory: svc.ListVersions, then the page is rendered
History ==
    /\ Handling("start") /\ op.args.handler = "history"
    /\ \E err \in ServiceErrors :
         Step(IF err # NoError THEN logErr(op.res, err) ELSE Finish(Write(op.res)))

\* HandleGetVersionChanges: ocfl.ParseVNum, 400 on error
ChangesParams ==
    /\ Handling("start") /\ op.args.handler = "changes"
    /\ Step(IF ParseVNum[op.args.verRef] = 0
            THEN [HttpError(op.res, StatusBadRequest) EXCEPT !.err = BadRequest]
            ELSE [op.res EXCEPT !.pc = "changes.sync", !.ver = ParseVNum[op.args.verRef]])

\* HandleGetVersionChanges: svc.SyncObject; a version above the head is
\* answered as access.ErrNotFound
ChangesSync ==
    /\ Handling("changes.sync")
    /\ \E err \in ServiceErrors, head \in 1..MaxHead :
         Step(IF err # NoError THEN logErr(op.res, err)
              ELSE IF op.res.ver > head THEN logErr(op.res, ErrorfW(AccessErrNotFound))
              ELSE [op.res EXCEPT !.pc = "changes.info", !.head = head])

\* HandleGetVersionChanges: svc.GetVersionInfo, svc.GetVersionChanges
ChangesInfo == ServiceCall("changes.info", "changes.diff")

ChangesDiff ==
    /\ Handling("changes.diff")
    /\ \E err \in ServiceErrors :
         Step(IF err # NoError THEN logErr(op.res, err) ELSE Finish(Write(op.res)))

\* The response is complete; the next request can arrive.
Respond ==
    /\ Handling("done")
    /\ op' = [NoCall EXCEPT !.n = 1]
    /\ UNCHANGED <<idxVars, histVars, clock, conn, syncVars, scan, tx>>

NextHttp ==
    \/ Receive \/ Respond
    \/ FilesParams \/ DirSync \/ DirRead
    \/ FileOpen \/ FileStat \/ FileCopy
    \/ ReadmeOpen \/ ReadmeStat \/ ReadmeRead
    \/ History
    \/ ChangesParams \/ ChangesSync \/ ChangesInfo \/ ChangesDiff

SpecHttp == InitIndex /\ [][NextHttp]_vars

Answered == op.name = "request" /\ op.res.pc = "done"

MaxCookieLen == 4      \* longest cookie value a request carries
SessionKey == "k1"     \* the key of the middleware
SessionKeys == {"k1", "k2"}
CookieSymbols == {"a", "b", ".", "k1", "k2"}
StatusUnauthorized == 401

\* The payloads setUserCookie signs: base64url text, which has no ".".
Payloads == {<<"a">>, <<"b">>, <<>>}

CookieValues == UNION {[1..n -> CookieSymbols] : n \in 0..MaxCookieLen}
NoCookie == <<"no cookie">>

\* base64.URLEncoding of the HMAC-SHA256 of the payload under the key
Mac(key, payload) == <<key>> \o payload

\* signValue
signValue(key, payload) == payload \o <<".">> \o Mac(key, payload)

\* strings.SplitN(signed, ".", 2): the position of the first ".", 0 if none
FirstDot(signed) ==
    IF \E i \in 1..Len(signed) : signed[i] = "."
    THEN CHOOSE i \in 1..Len(signed) :
            signed[i] = "." /\ \A j \in 1..(i - 1) : signed[j] # "."
    ELSE 0

\* verifyValue that does not compare the signature.
verifyValueNoCompare(key, signed) ==
    LET i == FirstDot(signed)
    IN IF i = 0 THEN [payload |-> <<>>, ok |-> FALSE]
       ELSE [payload |-> SubSeq(signed, 1, i - 1), ok |-> TRUE]

\* verifyValue
verifyValue(key, signed) ==
    LET i == FirstDot(signed)
        payload == SubSeq(signed, 1, i - 1)
        sig == SubSeq(signed, i + 1, Len(signed))
    IN IF i = 0 THEN [payload |-> <<>>, ok |-> FALSE]
       ELSE IF sig # Mac(key, payload) THEN [payload |-> <<>>, ok |-> FALSE]
       ELSE [payload |-> payload, ok |-> TRUE]

\* base64 decoding and json.Unmarshal of a payload: the user, or "" when
\* either fails (the empty payload is not JSON).
DecodeUser(payload) == IF payload \in {<<"a">>, <<"b">>} THEN payload[1] ELSE ""

\* getUserFromCookie: "" is nil
getUserFromCookie(key, cookie) ==
    IF cookie = NoCookie THEN ""
    ELSE IF ~verifyValue(key, cookie).ok THEN ""
    ELSE DecodeUser(verifyValue(key, cookie).payload)

\* A request arrives with no session cookie or with any cookie value.
ReceiveAuth ==
    /\ op.name = ""
    /\ \E cookie \in CookieValues \cup {NoCookie} :
         op' = [name |-> "auth", k |-> K, args |-> <<cookie>>,
                res |-> [pc |-> "wrap", user |-> "", status |-> 0, called |-> FALSE], n |-> 0]
    /\ UNCHANGED <<idxVars, histVars, clock, conn, syncVars, scan, tx>>

\* Wrap: the user of the cookie, if any, is put into the request context.
Wrap ==
    /\ op.name = "auth" /\ op.res.pc = "wrap"
    /\ Step([op.res EXCEPT !.pc = "require",
                           !.user = getUserFromCookie(SessionKey, op.args[1])])

\* RequireAuth: 401 without a user in the context, else the handler is called.
RequireAuth ==
    /\ op.name = "auth" /\ op.res.pc = "require"
    /\ Step(IF op.res.user = ""
            THEN [op.res EXCEPT !.pc = "done", !.status = StatusUnauthorized]
            ELSE [op.res EXCEPT !.pc = "done", !.status = StatusOK, !.called = TRUE])

RespondAuth ==
    /\ op.name = "auth" /\ op.res.pc = "done"
    /\ op' = [NoCall EXCEPT !.n = 1]
    /\ UNCHANGED <<idxVars, histVars, clock, conn, syncVars, scan, tx>>

NextAuth == ReceiveAuth \/ Wrap \/ RequireAuth \/ RespondAuth

SpecAuth == InitIndex /\ [][NextAuth]_vars

\* C34: verifyValue returns the payload of every value signValue made with
\* the same key and rejects every value made with another key; and the
\* protected handler is called only for a cookie payload.signature whose
\* signature is the MAC of the payload under the middleware's key, every
\* other request being answered 401 without the handler called.
C34_OnlySignedCookiesPass ==
    /\ \A p \in Payloads :
         /\ verifyValue(SessionKey, signValue(SessionKey, p)) = [payload |-> p, ok |-> TRUE]
         /\ \A key \in SessionKeys \ {SessionKey} :
              ~verifyValue(SessionKey, signValue(key, p)).ok
    /\ (op.name = "auth" /\ op.res.pc = "done") =>
         LET cookie == op.args[1]
             signed == /\ cookie # NoCookie
                       /\ FirstDot(cookie) # 0
                       /\ SubSeq(cookie, FirstDot(cookie) + 1, Len(cookie))
                            = Mac(SessionKey, SubSeq(cookie, 1, FirstDot(cookie) - 1))
         IN /\ op.res.called => signed
            /\ ~op.res.called => op.res.status = StatusUnauthorized
            /\ ~signed => (~op.res.called /\ op.res.user = "")

\* The protected handler was called for the cookie signValue made of a
\* user's payload.
C34_Witness ==
    /\ op.name = "auth" /\ op.res.pc = "done" /\ op.res.called
    /\ op.args[1] = signValue(SessionKey, <<"a">>) /\ op.res.user = "a"

(***************************************************************************)
(* Re-indexing: SetObject on an object the index already holds.  The call  *)
(* and the versions whose stored state digest equalled the computed one    *)
(* are kept in op.                                                         *)
(***************************************************************************)
\* The file rows of version vn of the object in the table vf
VersionFileRows(vf, k, vn) == {f \in vf : f.k = k /\ f.vnum = vn}

\* setObjectVersion: newStateDigest == existingStateDigest for version vn
SameStateDigest(db, k, vn, versions) ==
    /\ vn \in 1..Len(versions)
    /\ ~stateChanged(db, k, vn, Hash(versions[vn]))

\* DB.setObject as in SetObject(k), the call recorded: the versions whose
\* state digest was the stored one, and the versions whose rows differ.
SetObjectAgain(k) ==
    \E obj \in Objects :
    \E order \in Orders(obj.manifest), pick \in Picks(obj.manifest) :
        \E res \in {ocfliteSetObject(DB, k, obj, clock, order, pick)} :
           /\ \A f \in res.cf : f.id <= MaxRowId
           /\ roots' = roots \cup {k[1]}
           /\ IF res.ok
              THEN /\ Install(res)
                   /\ lastObj' = [lastObj EXCEPT ![k] = obj]
                   /\ prevHead' = [prevHead EXCEPT ![k] = Head_(DB, k)]
              ELSE UNCHANGED <<objs, cfiles, vers, vfiles, lastObj, prevHead>>
           /\ op' = [name |-> "SetObject", k |-> k, args |-> <<>>,
                     res |-> [ok |-> res.ok,
                              kept |-> {v \in 1..MaxHead : SameStateDigest(DB, k, v, obj.versions)},
                              rewritten |-> {v \in 1..MaxHead :
                                  VersionFileRows(res.vf, k, v) # VersionFileRows(vfiles, k, v)}],
                     n |-> 0]
           /\ UNCHANGED <<tx, clock, conn, scan, syncVars>>

\* DB.UnsetObject, the call recorded
UnsetObjectAgain(k) ==
    /\ Install(ocfliteUnsetObject(DB, k))
    /\ lastObj' = [lastObj EXCEPT ![k] = NoObject]
    /\ prevHead' = [prevHead EXCEPT ![k] = 0]
    /\ op' = [name |-> "UnsetObject", k |-> k, args |-> <<>>,
              res |-> [ok |-> TRUE, kept |-> {}, rewritten |-> {}], n |-> 0]
    /\ UNCHANGED <<tx, roots, clock, conn, scan, syncVars>>

NextReindex == \E k \in Keys : SetObjectAgain(k) \/ UnsetObjectAgain(k)

SpecReindex == InitIndex /\ [][NextReindex]_vars

\* C35: a successful SetObject leaves the file rows of every version whose
\* stored state digest equals the digest computed for it exactly as they
\* were: none deleted, none inserted, none altered, also when the rows of a
\* lower version were rewritten by the same call.
C35_UnchangedVersionKeepsRows ==
    [][(op'.name = "SetObject" /\ op'.res.ok) =>
          \A v \in op'.res.kept :
              VersionFileRows(vfiles', op'.k, v) = VersionFileRows(vfiles, op'.k, v)]_vars

\* A SetObject that kept version 2, which has file rows, and rewrote the
\* rows of version 1.
C35_Witness ==
    /\ op.name = "SetObject" /\ op.res.ok
    /\ 2 \in op.res.kept /\ 1 \in op.res.rewritten
    /\ VersionFileRows(vfiles, op.k, 2) # {}

\* C36: every version-file row references a content-file row of the same
\* object that exists, and the digest of that content file is the digest of
\* the row's path in the state of the row's version for a live row, in the
\* state of the version before it for a tombstone.
C36_VersionFilesReferenceContent ==
    \A f \in vfiles :
        /\ Indexed(f.k)
        /\ f.vnum \in 1..Len(lastObj[f.k].versions)
        /\ (f.is_deleted => f.vnum > 1)
        /\ LET st == GivenState(f.k, IF f.is_deleted THEN f.vnum - 1 ELSE f.vnum)
           IN /\ f.path \in DOMAIN st
              /\ \E c \in cfiles : c.id = f.content_id /\ c.k = f.k /\ c.digest = st[f.path]


(***************************************************************************)
(* DB.SetObject with its connections, transactions and goroutines: the     *)
(* upsert transaction of DB.setObject, the listing of the content files    *)
(* without size, batchStatFiles with its producer, workers, waiting        *)
(* goroutine and channels, and the size transaction.  The state of the     *)
(* call is the record tx.                                                  *)
(***************************************************************************)
MaxWorkers == 2     \* largest numWorkers given to batchStatFiles

Workers == 1..MaxWorkers

\* The digests of the content files without size: with three of them and
\* one worker the producer has work left while in is full.
BatchDigests == {"d1", "d2", "d3"}

\* The size fs.StatFile reports for the content of a digest
SizeOfDigest(d) == IF d = "d1" THEN 10 ELSE IF d = "d2" THEN 20 ELSE 30

NoWorker == [pc |-> "none", d |-> ""]

\* DB.SetObject is entered: files are the digests setObjectFileSizes will
\* find without size, nw is the worker count.
NewCall(files, nw) ==
    [pc |-> "take1", held |-> 0, open |-> FALSE, cancelled |-> FALSE,
     files |-> files, nw |-> nw, todo |-> {},
     inq |-> <<>>, inClosed |-> FALSE, outq |-> <<>>, outClosed |-> FALSE,
     errq |-> <<>>, errClosed |-> FALSE,
     prod |-> "none", wk |-> [w \in Workers |-> NoWorker], waiter |-> "none",
     grpErr |-> "", stats |-> 0, results |-> <<>>, ret |-> ""]

\* db.Pool.Take(ctx)
Take(b) == [b EXCEPT !.held = @ + 1]

\* db.Pool.Put(conn) that keeps the connection.
PutLeak(b) == b

\* db.Pool.Put(conn)
Put(b) == [b EXCEPT !.held = @ - 1]

\* sqlitex.Transaction(conn)
Transaction(b) == [b EXCEPT !.open = TRUE]

\* the deferred commit(&err): commit or rollback, the transaction is over
commit(b) == [b EXCEPT !.open = FALSE]

\* The context of a group without cancellation on error.
ctxDoneCallerOnly(b) == b.cancelled

\* ctx.Done() of errgroup.WithContext(ctx): the caller cancelled, or a
\* goroutine of the group returned an error, or Wait has returned.
ctxDone(b) == b.cancelled \/ b.grpErr # "" \/ b.waiter \in {"close", "done"}

\* errgroup: the first error a goroutine returns is the group's error.
GroupErr(b, e) == IF b.grpErr = "" THEN [b EXCEPT !.grpErr = e] ELSE b

\* DB.SetObject returns.
Return_(b, ret) == [b EXCEPT !.pc = "ret", !.ret = ret]

\* One step of the call: tx changes, nothing else does.
Batch(next) ==
    /\ tx' = next
    /\ UNCHANGED <<idxVars, histVars, clock, conn, syncVars, scan, op>>

Running == tx.pc \notin {"idle", "ret"}

\* DB.SetObject is called.
SetObjectCall ==
    /\ ~Running
    /\ \E files \in SUBSET BatchDigests, nw \in Workers : Batch(NewCall(files, nw))

\* The caller's context is cancelled.
CancelCall ==
    /\ Running /\ ~tx.cancelled
    /\ Batch([tx EXCEPT !.cancelled = TRUE])

\* DB.setObject: Pool.Take, sqlitex.Transaction
SetObjectBegin ==
    /\ tx.pc = "take1"
    /\ Batch(IF tx.cancelled THEN Return_(tx, "error")
             ELSE [Transaction(Take(tx)) EXCEPT !.pc = "upsert"])

\* DB.setObject: ocflite.SetObject, then the deferred commit and Put
SetObjectEnd ==
    /\ tx.pc = "upsert"
    /\ \E failed \in BOOLEAN :
         /\ tx.cancelled => failed
         /\ Batch(IF failed THEN Return_(Put(commit(tx)), "error")
                  ELSE [Put(commit(tx)) EXCEPT !.pc = "take2"])

\* objectContentFiles: Pool.Take
ListBegin ==
    /\ tx.pc = "take2"
    /\ Batch(IF tx.cancelled THEN Return_(tx, "error")
             ELSE [Take(tx) EXCEPT !.pc = "list"])

\* setObjectFileSizes: the loop over objectContentFiles ends (or returns on
\* an error) and the iterator's deferred Put runs.
ListEnd ==
    /\ tx.pc = "list"
    /\ \E failed \in BOOLEAN :
         Batch(IF failed THEN Return_(Put(tx), "error")
               ELSE [Put(tx) EXCEPT !.pc = "spawn"])

\* batchStatFiles: the channels, the producer, the workers and the goroutine
\* that waits for the group.
Spawn ==
    /\ tx.pc = "spawn"
    /\ Batch([tx EXCEPT !.pc = "drain", !.todo = tx.files, !.prod = "run",
                        !.wk = [w \in Workers |->
                                  IF w <= tx.nw THEN [pc |-> "recv", d |-> ""] ELSE NoWorker],
                        !.waiter = "wait"])

\* producer: select case in <- work, for digests in the order the map yields
ProducerSend ==
    /\ Running /\ tx.prod = "run" /\ tx.inq = <<>>
    /\ \E d \in tx.todo : Batch([tx EXCEPT !.inq = <<d>>, !.todo = @ \ {d}])

\* producer: select case <-ctx.Done(): return ctx.Err(), close(in)
ProducerCancelled ==
    /\ Running /\ tx.prod = "run" /\ tx.todo # {} /\ ctxDone(tx)
    /\ Batch(GroupErr([tx EXCEPT !.prod = "done", !.inClosed = TRUE], "ctx"))

\* producer: the loop is over: close(in), return nil
ProducerDone ==
    /\ Running /\ tx.prod = "run" /\ tx.todo = {}
    /\ Batch([tx EXCEPT !.prod = "done", !.inClosed = TRUE])

\* worker: for work := range in
WorkerRecv(w) ==
    /\ Running /\ tx.wk[w].pc = "recv" /\ tx.inq # <<>>
    /\ Batch([tx EXCEPT !.wk[w] = [pc |-> "stat", d |-> tx.inq[1]], !.inq = <<>>])

\* worker: in is closed and empty: return nil
WorkerEnd(w) ==
    /\ Running /\ tx.wk[w].pc = "recv" /\ tx.inq = <<>> /\ tx.inClosed
    /\ Batch([tx EXCEPT !.wk[w] = [pc |-> "done", d |-> ""]])

\* worker: fs.StatFile is called
WorkerStat(w) ==
    /\ Running /\ tx.wk[w].pc = "stat"
    /\ Batch([tx EXCEPT !.wk[w].pc = "stating", !.stats = @ + 1])

\* worker: fs.StatFile returns the size, or an error and the worker returns it
WorkerStated(w) ==
    /\ Running /\ tx.wk[w].pc = "stating"
    /\ \E failed \in BOOLEAN :
         Batch(IF failed
               THEN GroupErr([tx EXCEPT !.wk[w] = [pc |-> "done", d |-> ""], !.stats = @ - 1], "stat")
               ELSE [tx EXCEPT !.wk[w].pc = "send", !.stats = @ - 1])

\* worker: select case out <- result
WorkerSend(w) ==
    /\ Running /\ tx.wk[w].pc = "send" /\ tx.outq = <<>>
    /\ Batch([tx EXCEPT !.outq = <<tx.wk[w].d>>, !.wk[w] = [pc |-> "recv", d |-> ""]])

\* worker: select case <-ctx.Done(): return ctx.Err()
WorkerCancelled(w) ==
    /\ Running /\ tx.wk[w].pc = "send" /\ ctxDone(tx)
    /\ Batch(GroupErr([tx EXCEPT !.wk[w] = [pc |-> "done", d |-> ""]], "ctx"))

\* waiting goroutine: grp.Wait() returns when every goroutine of the group
\* has returned; its result goes to errCh, which has room for it.
WaitReturns ==
    /\ Running /\ tx.waiter = "wait" /\ tx.prod = "done"
    /\ \A w \in Workers : tx.wk[w].pc \in {"none", "done"}
    /\ ~tx.errClosed /\ tx.errq = <<>>
    /\ Batch([tx EXCEPT !.errq = <<tx.grpErr>>, !.waiter = "close"])

\* waiting goroutine: close(out)
CloseOut ==
    /\ Running /\ tx.waiter = "close"
    /\ Batch([tx EXCEPT !.outClosed = TRUE, !.waiter = "done"])

\* batchStatFiles: for result := range out
MainRecv ==
    /\ tx.pc = "drain" /\ tx.outq # <<>>
    /\ Batch([tx EXCEPT !.results = (tx.outq[1] :> SizeOfDigest(tx.outq[1])) @@ @,
                        !.outq = <<>>])

\* batchStatFiles: out is closed and empty
MainDrained ==
    /\ tx.pc = "drain" /\ tx.outq = <<>> /\ tx.outClosed
    /\ Batch([tx EXCEPT !.pc = "errch"])

\* batchStatFiles: err := <-errCh, the deferred close(errCh), and the return
\* to setObjectFileSizes, which returns the error if there is one
BatchReturns ==
    /\ tx.pc = "errch" /\ tx.errq # <<>>
    /\ Batch(IF tx.errq[1] # ""
             THEN Return_([tx EXCEPT !.errq = <<>>, !.errClosed = TRUE, !.results = <<>>], "error")
             ELSE [tx EXCEPT !.errq = <<>>, !.errClosed = TRUE, !.pc = "take3"])

\* setObjectFileSizes: Pool.Take, sqlitex.Transaction of the size transaction
SizesBegin ==
    /\ tx.pc = "take3"
    /\ Batch(IF tx.cancelled THEN Return_(tx, "error")
             ELSE [Transaction(Take(tx)) EXCEPT !.pc = "sizes"])

\* setObjectFileSizes: SetObjectFileSize per digest, the deferred commit, Put
SizesEnd ==
    /\ tx.pc = "sizes"
    /\ \E failed \in BOOLEAN :
         /\ tx.cancelled => failed
         /\ Batch(Return_(Put(commit(tx)), IF failed THEN "error" ELSE "ok"))

\* The steps the runtime takes by itself: goroutines that can run do run,
\* and a stat that was called returns.
BatchRun ==
    \/ SetObjectBegin \/ SetObjectEnd \/ ListBegin \/ ListEnd \/ Spawn
    \/ ProducerSend \/ ProducerCancelled \/ ProducerDone
    \/ \E w \in Workers :
         \/ WorkerRecv(w) \/ WorkerEnd(w) \/ WorkerStat(w) \/ WorkerStated(w)
         \/ WorkerSend(w) \/ WorkerCancelled(w)
    \/ WaitReturns \/ CloseOut
    \/ MainRecv \/ MainDrained \/ BatchReturns
    \/ SizesBegin \/ SizesEnd

NextBatch == SetObjectCall \/ CancelCall \/ BatchRun

SpecBatch == InitIndex /\ [][NextBatch]_vars

SpecBatchFair == SpecBatch /\ WF_vars(BatchRun)

\* C37: while a stat on the backing store is in progress, the call holds no
\* connection and has no transaction open; a transaction is open only
\* before the goroutines of batchStatFiles exist or after they have all
\* returned with every stat done.
C37_NoTransactionDuringIO ==
    Running =>
        /\ tx.stats > 0 => (~tx.open /\ tx.held = 0)
        /\ (tx.open \/ tx.held > 0) =>
              /\ tx.stats = 0
              /\ tx.prod \in {"none", "done"}
              /\ \A w \in Workers : tx.wk[w].pc \in {"none", "done"}
        /\ (tx.open /\ tx.pc = "sizes") => DOMAIN tx.results = tx.files

\* Two stats are in progress after the upsert transaction has committed.
C37_Witness ==
    /\ Running /\ tx.stats = 2 /\ tx.pc = "drain"


\* C38: batchStatFiles terminates: from the moment its goroutines exist the
\* call gets its result, whatever the file set, the worker count, the stats
\* that fail and the moment of a cancellation.  When it has returned, the
\* producer, every worker and the waiting goroutine have returned, no
\* result is left in out and nothing was sent on the closed error channel; on
\* success the result holds the size of every digest of the input and of
\* no other.
C38_BatchStatTerminates ==
    /\ []((Running \/ tx.pc = "ret") =>
            /\ tx.errClosed => tx.waiter = "done"
            /\ (tx.waiter # "none" /\ tx.pc \in {"take3", "sizes", "ret"}) =>
                  /\ tx.prod = "done" /\ tx.waiter = "done"
                  /\ \A w \in Workers : tx.wk[w].pc \in {"none", "done"}
                  /\ tx.outq = <<>> /\ tx.stats = 0
            /\ (tx.pc \in {"take3", "sizes"} \/ tx.ret = "ok") =>
                  /\ DOMAIN tx.results = tx.files
                  /\ \A d \in tx.files : tx.results[d] = SizeOfDigest(d))
    /\ (tx.pc = "drain") ~> (tx.pc \in {"take3", "ret"})

\* DB.SetObject returned without error after two workers stated three files.
C38_Witness ==
    /\ tx.pc = "ret" /\ tx.ret = "ok" /\ tx.nw = 2 /\ tx.files = BatchDigests

(***************************************************************************)
(* The state digest over bytes: paths and digests are strings of           *)
(* characters, and the input of SHA-512 is the string PathMap.Hash writes. *)
(* SHA-512 is collision free in the model: the hash is its input.          *)
(***************************************************************************)
\* Logical paths of an inventory: plain names, a name with a space, and a
\* name with a space and a newline.
HashPaths == {<<"a">>, <<"b">>, <<"a", " ", "b">>, <<"a", " ", "1", "\n", "b">>}

\* Digests are hex strings.
HashDigests == {<<"1">>, <<"2">>}

MaxStatePaths == 2     \* most paths in a version state

\* The version states: path -> digest
HashPathMaps ==
    {pm \in UNION {[S -> HashDigests] : S \in SUBSET HashPaths} :
        Cardinality(DOMAIN pm) <= MaxStatePaths}

\* The byte of a character
ByteOf(c) ==
    CASE c = "\n" -> 10 [] c = " " -> 32 [] c = "1" -> 49 [] c = "2" -> 50
      [] c = "a" -> 97 [] c = "b" -> 98

\* s < t for Go strings: byte-wise lexicographic order
LessString(s, t) ==
    \E i \in 1..(Len(s) + 1) :
        /\ i <= Len(t)
        /\ \A j \in 1..(i - 1) : s[j] = t[j]
        /\ (i = Len(s) + 1 \/ ByteOf(s[i]) < ByteOf(t[i]))

\* slices.Sort of a set of strings
RECURSIVE SortStrings(_)
SortStrings(S) ==
    IF S = {} THEN <<>>
    ELSE LET least == CHOOSE x \in S : \A y \in S \ {x} : LessString(x, y)
         IN <<least>> \o SortStrings(S \ {least})

\* DigestMap.Paths: the orders in which the (path, digest) pairs of a
\* DigestMap can be yielded
YieldOrders(dm) ==
    LET pairs == {<<p, d>> : p \in UNION {dm[d] : d \in DOMAIN dm}, d \in DOMAIN dm} 
        own == {pd \in pairs : pd[1] \in dm[pd[2]]}
        n == Cardinality(own)
    IN {s \in [1..n -> own] : \A i, j \in 1..n : i # j => s[i] # s[j]}

\* maps.Collect of the yielded pairs: a later pair replaces an earlier one
mapsCollect(yield) ==
    [p \in {yield[i][1] : i \in 1..Len(yield)} |->
        yield[Max({i \in 1..Len(yield) : yield[i][1] = p})][2]]

\* The loop of PathMap.Hash: hash.Write(p + " " + m[p] + "\n") per path
RECURSIVE HashWrite(_, _)
HashWrite(pm, paths) ==
    IF paths = <<>> THEN <<>>
    ELSE Head(paths) \o <<" ">> \o pm[Head(paths)] \o <<"\n">> \o HashWrite(pm, Tail(paths))

\* PathMap.Hash over bytes
PathMapHashBytes(pm) == HashWrite(pm, SortStrings(DOMAIN pm))

\* DigestMap.Hash over bytes, the pairs yielded in the given order
DigestMapHash(dm, yield) == PathMapHashBytes(mapsCollect(yield))

\* setObjectVersion computes the state digest of two version states.
HashCall ==
    /\ op.name = ""
    /\ \E pm1, pm2 \in HashPathMaps :
       \E y1 \in YieldOrders(DigestMap(pm1)), y2 \in YieldOrders(DigestMap(pm2)) :
         op' = [name |-> "Hash", k |-> K, args |-> <<pm1, pm2>>,
                res |-> [h1 |-> DigestMapHash(DigestMap(pm1), y1),
                         h2 |-> DigestMapHash(DigestMap(pm2), y2)], n |-> 0]
    /\ UNCHANGED <<idxVars, histVars, clock, conn, syncVars, scan, tx>>

HashReturn ==
    /\ op.name = "Hash"
    /\ op' = [NoCall EXCEPT !.n = 1]
    /\ UNCHANGED <<idxVars, histVars, clock, conn, syncVars, scan, tx>>

NextHash == HashCall \/ HashReturn

SpecHash == InitIndex /\ [][NextHash]_vars

\* C39: the state digests of two version states are equal exactly when the
\* states are the same path-to-digest map, in whatever order the pairs of
\* either are yielded: equal states are never taken for changed, different
\* states never for unchanged.
C39_StateDigestSeparatesStates ==
    op.name = "Hash" => ((op.res.h1 = op.res.h2) <=> (op.args[1] = op.args[2]))

\* The half of C39 that holds: equal states have equal digests in every
\* order of the pairs.
C39_EqualStatesEqualDigests ==
    op.name = "Hash" => ((op.args[1] = op.args[2]) => (op.res.h1 = op.res.h2))


(***************************************************************************)
(* Isolation of the objects of one index: SetObject, SetObjectFileSize,    *)
(* TouchObject and UnsetObject on two objects of one root and an object of *)
(* a second root with the same id.                                         *)
(***************************************************************************)
\* The inventories: the first object has a file that is deleted in version
\* 2, or no file at all; the other objects have one file in one version.
IsoObjects(k) ==
    IF k = <<"r1", "o1">>
    THEN {[versions |-> <<DigestMap("a" :> "d1"), DigestMap(<<>>)>>, manifest |-> ("c1" :> "d1"),
           inventoryDigest |-> "x", storagePath |-> k[2]],
          [versions |-> <<DigestMap(<<>>), DigestMap(<<>>)>>, manifest |-> <<>>,
           inventoryDigest |-> "z", storagePath |-> k[2]]}
    ELSE {[versions |-> <<DigestMap("a" :> "d1")>>, manifest |-> ("c1" :> "d1"),
           inventoryDigest |-> "a", storagePath |-> k[2]]}

\* An operation on the object k: the index becomes db, the call is recorded.
IsoCall(name, k, db) ==
    /\ Install(db)
    /\ op' = [name |-> name, k |-> k, args |-> <<>>, res |-> [err |-> NoError], n |-> 0]
    /\ UNCHANGED <<histVars, clock, conn, syncVars, scan, tx>>

\* DB.setObject
IsoSetObject(k) ==
    \E obj \in IsoObjects(k) :
    \E order \in Orders(obj.manifest), pick \in Picks(obj.manifest) :
    \E db \in {ocfliteSetObject(DB, k, obj, clock, order, pick)} :
       /\ db.ok
       /\ \A f \in db.cf : f.id <= MaxRowId
       /\ roots' = roots \cup {k[1]}
       /\ IsoCall("SetObject", k, db)

\* ocflite.SetObjectFileSize
IsoSetObjectFileSize(k) ==
    /\ UNCHANGED roots
    /\ IsoCall("SetObjectFileSize", k, SetObjectFileSize(DB, k, "d1", StatSize["c1"]))

\* DB.TouchObject
IsoTouchObject(k) ==
    /\ UNCHANGED roots
    /\ IsoCall("TouchObject", k, ocfliteTouchObject(DB, k, clock + 1))

\* DB.UnsetObject
IsoUnsetObject(k) ==
    /\ UNCHANGED roots
    /\ IsoCall("UnsetObject", k, ocfliteUnsetObject(DB, k))

NextIso ==
    \E k \in ManyKeys :
        IsoSetObject(k) \/ IsoSetObjectFileSize(k) \/ IsoTouchObject(k) \/ IsoUnsetObject(k)

SpecIso == InitIndex /\ [][NextIso]_vars

\* The rows of the object k
RowsOf(db, k) ==
    <<{o \in db.objs : o.k = k}, {f \in db.cf : f.k = k},
      {v \in db.vs : v.k = k}, {f \in db.vf : f.k = k}>>

\* What the queries return for the object k
QueriesOf(db, k) ==
    <<GetObjectBrief(db, k),
      [v \in 1..MaxHead |-> GetVersion(db, k, v)],
      [v \in 1..MaxHead |-> ListVersionFiles(db, k, v, ".")],
      [v \in 1..MaxHead |-> GetVersionState(db, k, v)],
      [v \in 1..MaxHead |-> StatVersionFile(db, k, v, "a")],
      ListObjectFiles(db, k)>>

DBNext == [objs |-> objs', cf |-> cfiles', vs |-> vers', vf |-> vfiles', ok |-> TRUE]

\* C40: an operation on one object changes no row and no query result of
\* any other object (another id, or the same id under another root), and
\* removes no root.
C40_ObjectsAreIsolated ==
    [][/\ roots \subseteq roots'
       /\ \A k \in ManyKeys \ {op'.k} :
            /\ RowsOf(DBNext, k) = RowsOf(DB, k)
            /\ QueriesOf(DBNext, k) = QueriesOf(DB, k)]_vars

\* The part of C40 about rows and roots, which holds.
C40_RowsAreIsolated ==
    [][/\ roots \subseteq roots'
       /\ \A k \in ManyKeys \ {op'.k} : RowsOf(DBNext, k) = RowsOf(DB, k)]_vars

=============================================================================
